---- MODULE Spec2Model ----
(***************************************************************************)
(* Model of portfolio_rs: the quote caches and cached lookups              *)
(* (src/position.rs), position resolution (handle_position), historic      *)
(* aggregation (src/portfolio.rs), the refresh cycle                       *)
(* (create_live_portfolio_with_logging, src/main.rs), the background       *)
(* refresh task with its channel, the historic task, the manual refresh    *)
(* and the weekly series (run_tui / run_app / App, src/tui.rs).            *)
(*                                                                         *)
(* Conventions.  Option<T> is a sequence: <<>> is None, <<v>> is Some(v).  *)
(* Result<T,E> is a record: [ok |-> TRUE, val |-> v] or                    *)
(* [ok |-> FALSE, err |-> e].  f64 prices and amounts are small integers.  *)
(* A remote call of the quote provider is an input: Remote* below.         *)
(* Several specifications share the variables; each one leaves the         *)
(* variables of the other parts at their initial values.                   *)
(***************************************************************************)
EXTENDS Integers, Sequences, FiniteSets, TLC

VARIABLES
    QUOTE_CACHE,        \* position.rs:9   ticker -> YResponse
    PREV_CLOSE_CACHE,   \* position.rs:10  ticker -> close
    HISTORIC_CACHE,     \* position.rs:11  <<ticker, date>> -> YResponse
    NAME_CACHE,         \* position.rs:12  ticker -> short name
    lookup,             \* the last cached lookup: function, key, remote outcome, result
    lookups,            \* number of cached lookups made so far (SpecCache)
    \* create_live_portfolio_with_logging (main.rs:88-139)
    cycle,              \* where the call is: "idle", "resolving", "done", "panicked"
    cycles,             \* number of calls started so far
    positions,          \* main.rs:92   the declared positions, from_string's result
    tasks,              \* main.rs:99   one spawned handle_position task per position
    completed,          \* the tasks that have finished, in the order they finished
    awaited,            \* main.rs:104  how many tasks the loop has awaited
    portfolio,          \* main.rs:93   the positions added so far
    origin,             \* for each position of portfolio, its index in positions
    successful_positions,   \* main.rs:95
    failed_positions,       \* main.rs:96
    network_status,     \* main.rs:130  the status returned, "None" before the first return
    \* Portfolio::get_historic_total_value / get_historic_securities_value (portfolio.rs:47-163)
    histPc,             \* where the call is: "idle", "fetching", "done"
    histRuns,           \* number of calls started so far
    histPositions,      \* portfolio.rs:8    self.positions
    histDate,           \* portfolio.rs:47   date
    histVariant,        \* "total" or "securities": which of the two functions runs
    histResults,        \* portfolio.rs:72   join_all's results, None while a fetch is in flight
    histSum,            \* portfolio.rs:48   sum, as the final test reads it
    histErrors,         \* portfolio.rs:49   errors
    histReturn,         \* the value returned
    \* run_tui and App (tui.rs)
    bgPc,               \* tui.rs:1060  the background task: "none", "waiting", "cycling", "exited", "panicked"
    portfolio_channel,  \* tui.rs:1052  the messages sent and not yet received, oldest first
    receiver_open,      \* tui.rs:1053  the App holds the receiving end
    published,          \* number of messages sent so far
    app,                \* tui.rs:472   the fields of App that a portfolio update writes
    last_read,          \* for the last message received: its number, and the number of the latest sent by then
    \* the record SpecWarm keeps of the calls of create_live_portfolio_with_logging
    passLog,            \* per call: the caches when it started, and when it returned the portfolio and the caches
    \* the historic task of run_tui and the manual refresh of run_app (tui.rs:1079-1097, 1156-1174)
    side,               \* per owner, its call of create_live_portfolio: where it is, the tasks, the result
    weekly,             \* per owner, its call of compute_weekly_series_batch (tui.rs:321-427)
    historic_channel,   \* tui.rs:1054  the series sent and not yet received, oldest first
    historic_data,      \* tui.rs:495   App.historic_data
    app_positions_str,  \* tui.rs:483   App.positions_str, None while there is no App
    \* the accessors of a position, the allocation, and the parsers of the command line
    subject,            \* the value the function is called on, None before
    result,             \* the function last called and what it returned, None before
    \* two lookups of one key in flight at once (position.rs:181-191, 236-262)
    racers,             \* per lookup: where it is, what it fetched, what it returned
    \* the purchase forms of the App (tui.rs:484-492) and the data file
    form,               \* mode, selection, edit field, the three inputs, error_message
    data_file           \* the content of the file at App.data_file_path

caches == <<QUOTE_CACHE, PREV_CLOSE_CACHE, HISTORIC_CACHE, NAME_CACHE>>
cacheVars == <<caches, lookup, lookups>>
cycleVars == <<cycle, cycles, positions, tasks, completed, awaited, portfolio, origin,
               successful_positions, failed_positions, network_status>>
histVars == <<histPc, histRuns, histPositions, histDate, histVariant, histResults,
              histSum, histErrors, histReturn>>
tuiVars == <<bgPc, portfolio_channel, receiver_open, published, app, last_read>>
logVars == <<passLog>>
sideVars == <<side, weekly, historic_channel, historic_data, app_positions_str>>
callVars == <<subject, result>>
raceVars == <<racers>>
formVars == <<form, data_file>>
vars == <<cacheVars, cycleVars, histVars, tuiVars, logVars, sideVars, callVars, raceVars,
          formVars>>

\* What the actions of one part leave alone.
cycleCtl == <<cycle, cycles, positions, awaited, portfolio, origin,
              successful_positions, failed_positions, network_status>>
notCache == <<cycleVars, histVars, tuiVars, logVars, sideVars, callVars, raceVars, formVars>>
notCycle == <<histVars, tuiVars, logVars, sideVars, callVars, raceVars, formVars>>
notHist == <<cycleVars, tuiVars, logVars, sideVars, callVars, raceVars, formVars>>
notCall == <<cacheVars, cycleVars, histVars, tuiVars, logVars, sideVars, raceVars, formVars>>
notTui == <<histVars, logVars, callVars, raceVars, formVars>>

----------------------------------------------------------------------------
(* Bounds *)
MaxClose == 2       \* closes are 0..MaxClose
MaxQuotes == 2      \* a quote response lists at most MaxQuotes quotes
MaxLookups == 3     \* SpecCache makes at most MaxLookups lookups
MaxPositions == 2   \* a positions document of SpecRefresh declares at most MaxPositions positions
MaxCycles == 2      \* at most MaxCycles calls of create_live_portfolio_with_logging
MaxHoldings == 2    \* a portfolio of SpecHistoric holds at most MaxHoldings positions
MaxAggregations == 2    \* at most MaxAggregations historic aggregations
MaxSideRuns == 1    \* the historic task ticks, and the user refreshes, at most MaxSideRuns times

----------------------------------------------------------------------------
(* Values *)
None == <<>>
Some(v) == <<v>>
Ok(v) == [ok |-> TRUE, val |-> v]
Err(e) == [ok |-> FALSE, err |-> e]

Tickers == {"AAPL", "MSFT"}
Dates == {20200101, 20230101}
Names == {"Apple Inc."}
Closes == 0..MaxClose

\* The classes of YahooError a remote call can fail with.  Only the text of
\* "BadRequest" contains "Bad Request" (portfolio.rs:87).
ErrorClasses == {"BadRequest", "ConnectionFailed"}

\* yahoo::YResponse as the code reads it: last_quote() and quotes().
\* last_quote is None when last_quote() is an Err; quotes_ok is FALSE when
\* quotes() is an Err.
YResponse(last, qok, qs) == [last_quote |-> last, quotes_ok |-> qok, quotes |-> qs]

QuoteLists(n) == UNION {[1..k -> Closes] : k \in 0..n}

\* A response whose last quote is the last element of its quote list.
Consistent(qs) ==
    YResponse(IF qs = <<>> THEN None ELSE Some(qs[Len(qs)]), TRUE, qs)

\* The responses the provider can answer with: consistent ones (an empty one
\* included), a closed market (no last quote, a non-empty list) and a
\* response both accessors reject.
YResponses(n) ==
    {Consistent(qs) : qs \in QuoteLists(n)}
    \cup {YResponse(None, TRUE, qs) : qs \in QuoteLists(n) \ {<<>>}}
    \cup {YResponse(None, FALSE, <<>>)}

\* Outcomes of one remote call.  "new_err" is YahooConnector::new() failing,
\* before any call is made.
RemoteOk(v) == [kind |-> "ok", val |-> v]
RemoteErr(c) == [kind |-> "err", class |-> c]
RemoteNewErr == [kind |-> "new_err"]
RemoteFailures == {RemoteErr(c) : c \in ErrorClasses} \cup {RemoteNewErr}

\* The error a failed outcome carries.
ErrorOf(remote) == IF remote.kind = "err" THEN remote.class ELSE "BuilderFailed"

Put(cache, key, v) == [k \in DOMAIN cache \cup {key} |-> IF k = key THEN v ELSE cache[k]]
EmptyCache == [k \in {} |-> 0]

----------------------------------------------------------------------------
(* The four cached lookups (position.rs:181-280).  Each takes the cache,   *)
(* the key and the outcome of its remote call and gives the result and the *)
(* cache it leaves.                                                        *)

\* Mutant: the error arm ignores the cache.
get_quote_price_no_fallback(cache, ticker, remote) ==
    IF remote.kind = "ok"
    THEN [res |-> Ok(remote.val), cache |-> Put(cache, ticker, remote.val)]
    ELSE [res |-> Err(ErrorOf(remote)), cache |-> cache]

\* Mutant: a cached response is served once and dropped.
get_quote_price_evicting(cache, ticker, remote) ==
    IF remote.kind = "ok"
    THEN [res |-> Ok(remote.val), cache |-> Put(cache, ticker, remote.val)]
    ELSE IF remote.kind = "err" /\ ticker \in DOMAIN cache
    THEN [res |-> Ok(cache[ticker]), cache |-> [k \in DOMAIN cache \ {ticker} |-> cache[k]]]
    ELSE [res |-> Err(ErrorOf(remote)), cache |-> cache]

get_quote_price(cache, ticker, remote) ==
    CASE remote.kind = "new_err" -> [res |-> Err(ErrorOf(remote)), cache |-> cache]
      [] remote.kind = "ok" ->
            LET c2 == Put(cache, ticker, remote.val)
            IN [res |-> Ok(c2[ticker]), cache |-> c2]
      [] remote.kind = "err" ->
            IF ticker \in DOMAIN cache
            THEN [res |-> Ok(cache[ticker]), cache |-> cache]
            ELSE [res |-> Err(remote.class), cache |-> cache]

\* Mutant: the previous close is the last close of the window.
get_previous_close_last(cache, ticker, remote) ==
    IF remote.kind = "ok" /\ remote.val.quotes_ok /\ remote.val.quotes # <<>>
    THEN [res |-> Ok(remote.val.quotes[Len(remote.val.quotes)]),
          cache |-> Put(cache, ticker, remote.val.quotes[Len(remote.val.quotes)])]
    ELSE IF remote.kind = "err" /\ ticker \in DOMAIN cache
    THEN [res |-> Ok(cache[ticker]), cache |-> cache]
    ELSE [res |-> Err(IF remote.kind = "ok" THEN "NoResult" ELSE ErrorOf(remote)),
          cache |-> cache]

get_previous_close(cache, ticker, remote) ==
    CASE remote.kind = "new_err" -> [res |-> Err(ErrorOf(remote)), cache |-> cache]
      [] remote.kind = "ok" ->
            LET resp == remote.val
                quotes == resp.quotes
            IN IF ~resp.quotes_ok
               THEN [res |-> Err("DataInconsistency"), cache |-> cache]
               ELSE IF Len(quotes) >= 2
               THEN [res |-> Ok(quotes[Len(quotes) - 1]),
                     cache |-> Put(cache, ticker, quotes[Len(quotes) - 1])]
               ELSE IF Len(quotes) = 1
               THEN [res |-> Ok(quotes[1]), cache |-> Put(cache, ticker, quotes[1])]
               ELSE [res |-> Err("NoResult"), cache |-> cache]
      [] remote.kind = "err" ->
            IF ticker \in DOMAIN cache
            THEN [res |-> Ok(cache[ticker]), cache |-> cache]
            ELSE [res |-> Err(remote.class), cache |-> cache]

\* Mutant: the error arm hands out the cached response and drops it.
get_historic_price_evicting(cache, ticker, date, remote) ==
    LET cache_key == <<ticker, date>>
    IN IF remote.kind = "ok"
       THEN [res |-> Ok(remote.val), cache |-> Put(cache, cache_key, remote.val)]
       ELSE IF remote.kind = "err" /\ cache_key \in DOMAIN cache
       THEN [res |-> Ok(cache[cache_key]),
             cache |-> [k \in DOMAIN cache \ {cache_key} |-> cache[k]]]
       ELSE [res |-> Err(ErrorOf(remote)), cache |-> cache]

get_historic_price(cache, ticker, date, remote) ==
    LET cache_key == <<ticker, date>>
    IN CASE remote.kind = "new_err" -> [res |-> Err(ErrorOf(remote)), cache |-> cache]
         [] remote.kind = "ok" ->
               LET c2 == Put(cache, cache_key, remote.val)
               IN [res |-> Ok(c2[cache_key]), cache |-> c2]
         [] remote.kind = "err" ->
               IF cache_key \in DOMAIN cache
               THEN [res |-> Ok(cache[cache_key]), cache |-> cache]
               ELSE [res |-> Err(remote.class), cache |-> cache]

\* Mutant: the cache is consulted first, the remote answer only on a miss.
get_quote_name_cache_first(cache, ticker, remote) ==
    IF ticker \in DOMAIN cache
    THEN [res |-> Ok(cache[ticker]), cache |-> cache]
    ELSE IF remote.kind = "ok" /\ remote.val # <<>>
    THEN [res |-> Ok(remote.val[1]), cache |-> Put(cache, ticker, remote.val[1])]
    ELSE [res |-> Err(IF remote.kind = "ok" THEN "NoResult" ELSE ErrorOf(remote)),
          cache |-> cache]

\* search_ticker answers with a list of items; the lookup reads the first
\* item's short name.
get_quote_name(cache, ticker, remote) ==
    CASE remote.kind = "new_err" -> [res |-> Err(ErrorOf(remote)), cache |-> cache]
      [] remote.kind = "ok" ->
            IF remote.val # <<>>
            THEN [res |-> Ok(remote.val[1]), cache |-> Put(cache, ticker, remote.val[1])]
            ELSE [res |-> Err("NoResult"), cache |-> cache]
      [] remote.kind = "err" ->
            IF ticker \in DOMAIN cache
            THEN [res |-> Ok(cache[ticker]), cache |-> cache]
            ELSE [res |-> Err(remote.class), cache |-> cache]

----------------------------------------------------------------------------
(* Specification SpecCache: the lookups called in any order, with any      *)
(* outcome, on the process-wide caches.                                    *)

\* Inputs of SpecCache.
CacheResponses == {Consistent(<<c>>) : c \in 1..MaxClose} \cup {Consistent(<<>>)}
CacheQuoteRemotes == {RemoteOk(r) : r \in CacheResponses} \cup RemoteFailures
\* Quote lists of a history window: none, one close, or several with the
\* second-to-last close differing from the others.
CacheHistoryLists ==
    {<<>>} \cup {<<c>> : c \in 1..MaxClose}
    \cup {[i \in 1..n |-> IF i = n - 1 THEN c ELSE 0] : c \in 1..MaxClose, n \in 2..MaxQuotes}
CacheHistoryRemotes ==
    {RemoteOk(Consistent(qs)) : qs \in CacheHistoryLists} \cup RemoteFailures
SearchRemotes ==
    {RemoteOk(<<n>>) : n \in Names} \cup {RemoteOk(<<>>)} \cup RemoteFailures

NoLookup == [fn |-> "none", key |-> <<>>, remote |-> [kind |-> "none"],
             before |-> None, res |-> Err("none")]

\* The entry a cache holds for a key, as an Option.
Entry(cache, key) == IF key \in DOMAIN cache THEN Some(cache[key]) ELSE None

InitCaches ==
    /\ QUOTE_CACHE = EmptyCache
    /\ PREV_CLOSE_CACHE = EmptyCache
    /\ HISTORIC_CACHE = EmptyCache
    /\ NAME_CACHE = EmptyCache

\* No accessor, allocation or parser has been called.
NoCall ==
    /\ subject = None
    /\ result = None

\* No two lookups race.
NoRace == racers = <<>>

\* There is no App and no data file is looked at.
NoForm ==
    /\ form = None
    /\ data_file = None

\* No call of create_live_portfolio_with_logging has been made.
NoCycle ==
    /\ cycle = "idle"
    /\ cycles = 0
    /\ positions = <<>>
    /\ tasks = <<>>
    /\ completed = <<>>
    /\ awaited = 0
    /\ portfolio = <<>>
    /\ origin = <<>>
    /\ successful_positions = 0
    /\ failed_positions = 0
    /\ network_status = "None"
    /\ passLog = <<>>

InitCycle == NoCall /\ NoRace /\ NoForm /\ NoCycle

\* No historic aggregation has been made.
InitHist ==
    /\ histPc = "idle"
    /\ histRuns = 0
    /\ histPositions = <<>>
    /\ histDate = 0
    /\ histVariant = "total"
    /\ histResults = <<>>
    /\ histSum = 0
    /\ histErrors = <<>>
    /\ histReturn = Ok(0)

\* App::new (tui.rs:516-549).  last_update is a clock reading and is left out.
NewApp ==
    [portfolio |-> None, loading |-> FALSE, network_status |-> "Connected",
     previous_values |-> EmptyCache, trends |-> EmptyCache, flash_state |-> FALSE]

\* The two callers of create_live_portfolio and compute_weekly_series_batch
\* next to the background refresh task: the historic task of run_tui and
\* the key handler of run_app.
Owners == {"historic", "ui"}

\* No call of create_live_portfolio by this owner: pc is "none" before
\* run_tui, "waiting" between two calls.
NoPass(pc, runs) ==
    [pc |-> pc, runs |-> runs, tasks |-> <<>>, portfolio |-> <<>>, network_status |-> "None"]

\* No call of compute_weekly_series_batch.
NoSeries == [pc |-> "idle", age |-> <<>>, weeks |-> 0, fetches |-> <<>>, series |-> <<>>]

\* run_tui has not been called.
NoTui ==
    /\ bgPc = "none"
    /\ portfolio_channel = <<>>
    /\ receiver_open = FALSE
    /\ published = 0
    /\ app = NewApp
    /\ last_read = [got |-> 0, latest |-> 0]
    /\ side = [o \in Owners |-> NoPass("none", 0)]
    /\ weekly = [o \in Owners |-> NoSeries]
    /\ historic_channel = <<>>
    /\ historic_data = None
    /\ app_positions_str = None

InitCache ==
    /\ InitCaches
    /\ lookup = NoLookup
    /\ lookups = 0
    /\ InitCycle
    /\ InitHist
    /\ NoTui

\* Every lookup of SpecCache is counted.
Counted == lookups < MaxLookups /\ lookups' = lookups + 1

QuotePriceLookup ==
    \E t \in Tickers, r \in CacheQuoteRemotes :
        LET out == get_quote_price(QUOTE_CACHE, t, r)
        IN /\ Counted
           /\ UNCHANGED notCache
           /\ QUOTE_CACHE' = out.cache
           /\ lookup' = [fn |-> "get_quote_price", key |-> t, remote |-> r,
                         before |-> Entry(QUOTE_CACHE, t), res |-> out.res]
           /\ UNCHANGED <<PREV_CLOSE_CACHE, HISTORIC_CACHE, NAME_CACHE>>

PreviousCloseLookup ==
    \E t \in Tickers, r \in CacheHistoryRemotes :
        LET out == get_previous_close(PREV_CLOSE_CACHE, t, r)
        IN /\ Counted
           /\ UNCHANGED notCache
           /\ PREV_CLOSE_CACHE' = out.cache
           /\ lookup' = [fn |-> "get_previous_close", key |-> t, remote |-> r,
                         before |-> Entry(PREV_CLOSE_CACHE, t), res |-> out.res]
           /\ UNCHANGED <<QUOTE_CACHE, HISTORIC_CACHE, NAME_CACHE>>

HistoricPriceLookup ==
    \E t \in Tickers, d \in Dates, r \in CacheQuoteRemotes :
        LET out == get_historic_price(HISTORIC_CACHE, t, d, r)
        IN /\ Counted
           /\ UNCHANGED notCache
           /\ HISTORIC_CACHE' = out.cache
           /\ lookup' = [fn |-> "get_historic_price", key |-> <<t, d>>, remote |-> r,
                         before |-> Entry(HISTORIC_CACHE, <<t, d>>), res |-> out.res]
           /\ UNCHANGED <<QUOTE_CACHE, PREV_CLOSE_CACHE, NAME_CACHE>>

QuoteNameLookup ==
    \E t \in Tickers, r \in SearchRemotes :
        LET out == get_quote_name(NAME_CACHE, t, r)
        IN /\ Counted
           /\ UNCHANGED notCache
           /\ NAME_CACHE' = out.cache
           /\ lookup' = [fn |-> "get_quote_name", key |-> t, remote |-> r,
                         before |-> Entry(NAME_CACHE, t), res |-> out.res]
           /\ UNCHANGED <<QUOTE_CACHE, PREV_CLOSE_CACHE, HISTORIC_CACHE>>

NextCache ==
    \/ QuotePriceLookup
    \/ PreviousCloseLookup
    \/ HistoricPriceLookup
    \/ QuoteNameLookup

SpecCache == InitCache /\ [][NextCache]_vars

\* The cache a lookup function works on.
CacheFor(fn) ==
    CASE fn = "get_quote_price" -> QUOTE_CACHE
      [] fn = "get_previous_close" -> PREV_CLOSE_CACHE
      [] fn = "get_historic_price" -> HISTORIC_CACHE
      [] fn = "get_quote_name" -> NAME_CACHE

\* C1: for each of the four caches, a lookup whose remote call fails returns
\* the value an earlier successful lookup stored for the key, as a success,
\* when there is one, and otherwise returns the original error; either way
\* it leaves every cache unchanged.
C1_FallbackOnFailure ==
    [][lookup'.remote.kind = "err" =>
          /\ caches' = caches
          /\ LET c == CacheFor(lookup'.fn)
                 k == lookup'.key
             IN IF k \in DOMAIN c
                THEN lookup'.res = Ok(c[k])
                ELSE lookup'.res = Err(lookup'.remote.class)]_vars

\* A historic lookup failed remotely and was served from the cache.
C1_Witness ==
    /\ lookup.fn = "get_historic_price"
    /\ lookup.remote.kind = "err"
    /\ lookup.before # None
    /\ lookup.res = Ok(lookup.before[1])

\* The cache a lookup function works on, as the step leaves it.
CacheAfter(fn) ==
    CASE fn = "get_quote_price" -> QUOTE_CACHE'
      [] fn = "get_previous_close" -> PREV_CLOSE_CACHE'
      [] fn = "get_historic_price" -> HISTORIC_CACHE'
      [] fn = "get_quote_name" -> NAME_CACHE'

LookupFns == {"get_quote_price", "get_previous_close", "get_historic_price", "get_quote_name"}

\* The value a successful answer of the provider gives a lookup, None when
\* the answer holds none: the response itself, the second-to-last or only
\* close of the window, the first item's short name.
Fresh(fn, answer) ==
    CASE fn \in {"get_quote_price", "get_historic_price"} -> Some(answer)
      [] fn = "get_previous_close" ->
            IF ~answer.quotes_ok \/ answer.quotes = <<>> THEN None
            ELSE IF Len(answer.quotes) = 1 THEN Some(answer.quotes[1])
            ELSE Some(answer.quotes[Len(answer.quotes) - 1])
      [] fn = "get_quote_name" ->
            IF answer = <<>> THEN None ELSE Some(Head(answer))

\* C13: every entry of a cache was written by a successful remote call for
\* its key, with the value of that call; a failed call writes nothing and
\* no step removes an entry.
C13_WrittenOnlyOnSuccess ==
    [][\A fn \in LookupFns :
          /\ DOMAIN CacheFor(fn) \subseteq DOMAIN CacheAfter(fn)
          /\ \A k \in DOMAIN CacheAfter(fn) :
                Entry(CacheFor(fn), k) # Some(CacheAfter(fn)[k]) =>
                    /\ lookup'.fn = fn
                    /\ lookup'.key = k
                    /\ lookup'.remote.kind = "ok"
                    /\ Fresh(fn, lookup'.remote.val) = Some(CacheAfter(fn)[k])]_vars

\* A name lookup failed remotely on a ticker whose name was cached: the
\* entry is still there, with the value it had.
C13_Witness ==
    /\ lookup.fn = "get_quote_name"
    /\ lookup.remote.kind \in {"err", "new_err"}
    /\ lookup.before # None
    /\ Entry(NAME_CACHE, lookup.key) = lookup.before

C15_EmptyAnswerFallsBack ==
    (/\ lookup.remote.kind = "ok"
     /\ lookup.before # None
     /\ \/ lookup.fn = "get_quote_name" /\ lookup.remote.val = <<>>
        \/ /\ lookup.fn = "get_previous_close"
           /\ lookup.remote.val.quotes_ok
           /\ lookup.remote.val.quotes = <<>>)
    => lookup.res = Ok(lookup.before[1])

----------------------------------------------------------------------------
(* Positions and purchases (position.rs:14-43)                            *)

Purchase(date, quantity, price, fees) ==
    [date |-> date, quantity |-> quantity, price |-> price, fees |-> fees]

\* A position as from_string leaves it: last_spot and previous_close are
\* skipped by the deserializer and take their defaults.
Position(name, ticker, asset_class, amount, purchases) ==
    [name |-> name, ticker |-> ticker, asset_class |-> asset_class,
     amount |-> amount, last_spot |-> 0, purchases |-> purchases,
     previous_close |-> None]

\* parse_purchase_date (position.rs:224-233) on the date strings of the
\* model: the three accepted formats, surrounding blanks trimmed; a year
\* beyond 9999 needs a sign and parses; anything else is None.
parse_purchase_date(date_str) ==
    CASE date_str = "2020-01-01" -> Some(20200101)
      [] date_str = " 2020/01/01 " -> Some(20200101)
      [] date_str = "01-01-2023" -> Some(20230101)
      [] date_str = "+10000-01-01" -> Some(100000101)
      [] OTHER -> None

\* OffsetDateTime::from_unix_timestamp(..).unwrap() (position.rs:240) panics
\* for an instant after the year 9999.
MaxOffsetDate == 99991231
InTimeRange(date) == date <= MaxOffsetDate

\* The lot has no price, or one <= 0.
Unpriced(p) == p.price = None \/ p.price[1] <= 0

\* The lot has a date that parses.
Dated(p) == p.date # None /\ parse_purchase_date(p.date[1]) # None

\* Mutant: a negative close is taken as it is.
Max0_unclamped(x) == x

\* f64::max(0.0) (position.rs:317, 320)
Max0(x) == IF x > 0 THEN x ELSE 0

----------------------------------------------------------------------------
(* handle_position (position.rs:284-349), one step per remote call.  A     *)
(* task is [pc, pos, k, quote, result]: pc is the call the task waits for, *)
(* pos the position being filled, k the purchase being backfilled, quote   *)
(* what get_quote_price returned, result the task's outcome once done.     *)

NoResult == [kind |-> "none"]
TaskOk(pos) == [kind |-> "ok", pos |-> pos]
TaskErr(e) == [kind |-> "err", err |-> e]
TaskPanic == [kind |-> "panic"]

\* quote is the local of position.rs:289; window notes the answer of the
\* provider to the previous-close query of the task, fetched the result of
\* get_historic_price for each purchase it was called for.
NewTask(pos) ==
    [pc |-> "start", pos |-> pos, k |-> 0, quote |-> None, window |-> None,
     fetched |-> EmptyCache, result |-> NoResult]

\* position.rs:340-348
Return(task) == [task EXCEPT !.pc = "done", !.result = TaskOk(task.pos)]

\* position.rs:332: the name is looked up only when the JSON gave none.
ToName(task) ==
    IF task.pos.name = None THEN [task EXCEPT !.pc = "name"] ELSE Return(task)

\* position.rs:310-313: the purchase needs a historic lookup.
NeedsFetch(p) ==
    /\ (p.price = None \/ p.price[1] <= 0)
    /\ p.quantity > 0
    /\ p.date # None
    /\ parse_purchase_date(p.date[1]) # None

\* position.rs:309: the loop runs on to the next purchase that needs a
\* lookup; purchases that need none are pushed unchanged.
ContinueFill(task, from) ==
    LET ps == task.pos.purchases
        need == {j \in from..Len(ps) : NeedsFetch(ps[j])}
    IN IF need = {}
       THEN ToName(task)
       ELSE [task EXCEPT !.pc = "fill",
                         !.k = CHOOSE j \in need : \A j2 \in need : j <= j2]

\* position.rs:290-299: the price is the last quote's close or, without a
\* last quote, the close of the last element of the quote list.
SpotOf(resp, old) ==
    IF resp.last_quote # None THEN resp.last_quote[1]
    ELSE IF resp.quotes_ok /\ resp.quotes # <<>> THEN resp.quotes[Len(resp.quotes)]
    ELSE old

\* position.rs:334-335
AfterName(task, res) ==
    IF res.ok
    THEN Return([task EXCEPT !.pos.name = Some(res.val)])
    ELSE [task EXCEPT !.pc = "done", !.result = TaskErr(res.err)]

\* position.rs:289-299
AfterQuote(task, res) ==
    IF res.ok
    THEN [task EXCEPT !.pc = "prev", !.quote = Some(res),
                      !.pos.last_spot = SpotOf(res.val, task.pos.last_spot)]
    ELSE [task EXCEPT !.pc = "done", !.quote = Some(res), !.result = TaskErr(res.err)]

\* position.rs:302-307
AfterPreviousClose(task, res) ==
    ContinueFill(IF res.ok THEN [task EXCEPT !.pos.previous_close = Some(res.val)]
                 ELSE task, 1)

\* position.rs:314-326
AfterHistoric(task, res) ==
    LET p == task.pos.purchases[task.k]
        filled ==
            IF ~res.ok THEN p
            ELSE IF res.val.last_quote # None
            THEN [p EXCEPT !.price = Some(Max0(res.val.last_quote[1]))]
            ELSE IF res.val.quotes_ok /\ res.val.quotes # <<>>
            THEN [p EXCEPT !.price = Some(Max0(res.val.quotes[Len(res.val.quotes)]))]
            ELSE p
    IN ContinueFill([task EXCEPT !.pos.purchases[task.k] = filled], task.k + 1)

Running(i) == cycle = "resolving" /\ i \in 1..Len(tasks)

\* Task i moves on to the state t; a task that finishes is noted.
Step(i, t) ==
    /\ tasks' = [tasks EXCEPT ![i] = t]
    /\ completed' = IF t.pc = "done" THEN Append(completed, i) ELSE completed

\* position.rs:287, 340: a position without ticker is returned as it is.
ResolveCash(i) ==
    /\ Running(i)
    /\ tasks[i].pc = "start"
    /\ tasks[i].pos.ticker = None
    /\ Step(i, Return(tasks[i]))
    /\ UNCHANGED <<cacheVars, cycleCtl, notCycle>>

FetchQuote(i, remotes) ==
    /\ Running(i)
    /\ tasks[i].pc = "start"
    /\ tasks[i].pos.ticker # None
    /\ \E r \in remotes :
          LET out == get_quote_price(QUOTE_CACHE, tasks[i].pos.ticker[1], r)
          IN /\ QUOTE_CACHE' = out.cache
             /\ Step(i, AfterQuote(tasks[i], out.res))
    /\ UNCHANGED <<PREV_CLOSE_CACHE, HISTORIC_CACHE, NAME_CACHE, lookup, lookups,
                   cycleCtl, notCycle>>

FetchPreviousClose(i, remotes) ==
    /\ Running(i)
    /\ tasks[i].pc = "prev"
    /\ \E r \in remotes :
          LET out == get_previous_close(PREV_CLOSE_CACHE, tasks[i].pos.ticker[1], r)
          IN /\ PREV_CLOSE_CACHE' = out.cache
             /\ Step(i, [AfterPreviousClose(tasks[i], out.res) EXCEPT !.window = Some(r)])
    /\ UNCHANGED <<QUOTE_CACHE, HISTORIC_CACHE, NAME_CACHE, lookup, lookups,
                   cycleCtl, notCycle>>

\* The date of the purchase task i is backfilling.
FillDate(i) == parse_purchase_date(tasks[i].pos.purchases[tasks[i].k].date[1])[1]

FetchHistoric(i, remotes) ==
    /\ Running(i)
    /\ tasks[i].pc = "fill"
    /\ InTimeRange(FillDate(i))
    /\ \E r \in remotes :
          LET out == get_historic_price(HISTORIC_CACHE, tasks[i].pos.ticker[1],
                                        FillDate(i), r)
          IN /\ HISTORIC_CACHE' = out.cache
             /\ Step(i, [AfterHistoric(tasks[i], out.res)
                             EXCEPT !.fetched = Put(@, tasks[i].k, out.res)])
    /\ UNCHANGED <<QUOTE_CACHE, PREV_CLOSE_CACHE, NAME_CACHE, lookup, lookups,
                   cycleCtl, notCycle>>

\* position.rs:240: the unwrap panics inside the spawned task.
FetchHistoricPanic(i) ==
    /\ Running(i)
    /\ tasks[i].pc = "fill"
    /\ ~InTimeRange(FillDate(i))
    /\ Step(i, [tasks[i] EXCEPT !.pc = "done", !.result = TaskPanic])
    /\ UNCHANGED <<cacheVars, cycleCtl, notCycle>>

FetchName(i, remotes) ==
    /\ Running(i)
    /\ tasks[i].pc = "name"
    /\ \E r \in remotes :
          LET out == get_quote_name(NAME_CACHE, tasks[i].pos.ticker[1], r)
          IN /\ NAME_CACHE' = out.cache
             /\ Step(i, AfterName(tasks[i], out.res))
    /\ UNCHANGED <<QUOTE_CACHE, PREV_CLOSE_CACHE, HISTORIC_CACHE, lookup, lookups,
                   cycleCtl, notCycle>>

----------------------------------------------------------------------------
(* create_live_portfolio_with_logging (main.rs:88-139)                     *)

\* A positions document is well-formed JSON declaring a sequence of
\* position objects, or it is not.  from_string (position.rs:176-178)
\* gives the positions of the first and panics on the second.
Doc(ps) == [well_formed |-> TRUE, positions |-> ps]
Malformed == [well_formed |-> FALSE, positions |-> <<>>]
IsMalformed(doc) == ~doc.well_formed

\* position.rs:26-43: what the deserializer makes of a position object:
\* the four declared fields and the lots; last_spot and previous_close are
\* skipped and a key the struct does not declare is ignored.
Deserialized(object) ==
    Position(object.name, object.ticker, object.asset_class, object.amount,
             object.purchases)

from_string(doc) == [i \in 1..Len(doc.positions) |-> Deserialized(doc.positions[i])]

\* serde_json::from_str::<Vec<serde_json::Value>> (tui.rs:749, 875, 932):
\* the position objects as the document holds them.
json_values(doc) == doc.positions

\* Mutant: the two tests in the other order.
StatusOf_successes_first(succeeded, failed) ==
    IF succeeded = 0 THEN "Disconnected"
    ELSE IF failed = 0 THEN "Connected"
    ELSE "Partial"

\* main.rs:130-136
StatusOf(succeeded, failed) ==
    IF failed = 0 THEN "Connected"
    ELSE IF succeeded = 0 THEN "Disconnected"
    ELSE "Partial"

\* main.rs:92-102: parse the document and spawn one task per position.
BeginCycle(doc) ==
    /\ positions' = from_string(doc)
    /\ tasks' = [i \in 1..Len(from_string(doc)) |-> NewTask(from_string(doc)[i])]
    /\ cycle' = "resolving"
    /\ cycles' = cycles + 1
    /\ completed' = <<>>
    /\ awaited' = 0
    /\ portfolio' = <<>>
    /\ origin' = <<>>
    /\ successful_positions' = 0
    /\ failed_positions' = 0
    /\ UNCHANGED <<cacheVars, network_status>>

\* main.rs:92: from_string panics in the caller, before any task exists.
BeginCyclePanic ==
    /\ cycle' = "panicked"
    /\ cycles' = cycles + 1
    /\ UNCHANGED <<cacheVars, positions, tasks, completed, awaited, portfolio, origin,
                   successful_positions, failed_positions, network_status>>

\* A call of create_live_portfolio_with_logging on a well-formed document.
StartCycle(docs) ==
    /\ cycle \in {"idle", "done"}
    /\ cycles < MaxCycles
    /\ \E doc \in docs : ~IsMalformed(doc) /\ BeginCycle(doc)
    /\ UNCHANGED notCycle

\* A call of create_live_portfolio_with_logging on a malformed document.
StartCyclePanic(docs) ==
    /\ cycle \in {"idle", "done"}
    /\ cycles < MaxCycles
    /\ \E doc \in docs : IsMalformed(doc)
    /\ BeginCyclePanic
    /\ UNCHANGED notCycle

\* Mutant: the loop stops at the first task that failed.
AwaitStep_abort_on_failure(i) ==
    LET r == tasks[i].result
    IN IF r.kind = "ok"
       THEN [portfolio |-> Append(portfolio, r.pos), origin |-> Append(origin, i),
             ok |-> successful_positions + 1, failed |-> failed_positions,
             awaited |-> i]
       ELSE [portfolio |-> portfolio, origin |-> origin,
             ok |-> successful_positions, failed |-> failed_positions + 1,
             awaited |-> Len(tasks)]

\* Mutant: a resolved position is put in front of the earlier ones.
AwaitStep_prepend(i) ==
    LET r == tasks[i].result
    IN IF r.kind = "ok"
       THEN [portfolio |-> <<r.pos>> \o portfolio, origin |-> <<i>> \o origin,
             ok |-> successful_positions + 1, failed |-> failed_positions,
             awaited |-> i]
       ELSE [portfolio |-> portfolio, origin |-> origin,
             ok |-> successful_positions, failed |-> failed_positions + 1,
             awaited |-> i]

\* main.rs:104-128: one turn of the loop, on the finished task i.
AwaitStep(i) ==
    LET r == tasks[i].result
    IN IF r.kind = "ok"
       THEN [portfolio |-> Append(portfolio, r.pos), origin |-> Append(origin, i),
             ok |-> successful_positions + 1, failed |-> failed_positions,
             awaited |-> i]
       ELSE [portfolio |-> portfolio, origin |-> origin,
             ok |-> successful_positions, failed |-> failed_positions + 1,
             awaited |-> i]

\* The loop awaits the tasks in the order of the declared positions.
AwaitTask ==
    /\ cycle = "resolving"
    /\ awaited < Len(tasks)
    /\ tasks[awaited + 1].pc = "done"
    /\ LET a == AwaitStep(awaited + 1)
       IN /\ portfolio' = a.portfolio
          /\ origin' = a.origin
          /\ successful_positions' = a.ok
          /\ failed_positions' = a.failed
          /\ awaited' = a.awaited
    /\ UNCHANGED <<cacheVars, cycle, cycles, positions, tasks, completed, network_status,
                   notCycle>>

\* main.rs:130-138
EndCycle ==
    /\ cycle = "resolving"
    /\ awaited = Len(tasks)
    /\ network_status' = StatusOf(successful_positions, failed_positions)
    /\ cycle' = "done"
    /\ UNCHANGED <<cacheVars, cycles, positions, tasks, completed, awaited, portfolio, origin,
                   successful_positions, failed_positions>>

\* The call returns the portfolio and the status.
FinishCycle == EndCycle /\ UNCHANGED notCycle

----------------------------------------------------------------------------
(* Specification SpecResolve: create_live_portfolio_with_logging called    *)
(* MaxCycles times on documents of one position, with every kind of answer *)
(* of the provider; the caches live on from one call to the next.          *)

ResolveResponses ==
    {Consistent(<<1>>), Consistent(<<1, MaxClose>>), YResponse(None, TRUE, <<MaxClose>>),
     Consistent(<<0 - 1>>), Consistent(<<>>), YResponse(None, FALSE, <<>>)}
ResolveFailures == {RemoteErr("ConnectionFailed"), RemoteNewErr}
ResolveRemotes == {RemoteOk(r) : r \in ResolveResponses} \cup ResolveFailures
ResolveSearchRemotes ==
    {RemoteOk(<<n>>) : n \in Names} \cup {RemoteOk(<<>>)} \cup ResolveFailures

CashPosition == Position(Some("Cash"), None, "Cash", 2, <<>>)
DebtPosition == Position(Some("Loan"), None, "Cash", 0 - 1, <<>>)
SavingsPosition ==
    Position(Some("Savings"), None, "Cash", 1, <<Purchase(None, 3, None, None)>>)
NamedPosition == Position(Some("Apple"), Some("AAPL"), "Stock", 2, <<>>)
UnnamedPosition == Position(None, Some("AAPL"), "Stock", 1, <<>>)
LotsPosition ==
    Position(Some("Apple"), Some("AAPL"), "Stock", 1,
             <<Purchase(Some("yesterday"), 1, None, None),
               Purchase(Some("2020-01-01"), 2, None, Some(1)),
               Purchase(Some("01-01-2023"), 1, Some(1), None)>>)
FarLotPosition ==
    Position(Some("Apple"), Some("AAPL"), "Stock", 1,
             <<Purchase(Some("+10000-01-01"), 1, None, None)>>)

\* A lot without quantity and a lot with a price of 0.
ZeroLotPosition ==
    Position(Some("Apple"), Some("AAPL"), "Stock", 1,
             <<Purchase(Some(" 2020/01/01 "), 0, None, None),
               Purchase(Some("2020-01-01"), 1, Some(0), None)>>)

ResolveDocs ==
    {Doc(<<p>>) : p \in {CashPosition, SavingsPosition, NamedPosition, UnnamedPosition,
                         LotsPosition, ZeroLotPosition, FarLotPosition}}

InitResolve ==
    /\ InitCaches
    /\ lookup = NoLookup
    /\ lookups = 0
    /\ InitCycle
    /\ InitHist
    /\ NoTui

NextResolve ==
    \/ StartCycle(ResolveDocs)
    \/ ResolveCash(1)
    \/ FetchQuote(1, ResolveRemotes)
    \/ FetchPreviousClose(1, ResolveRemotes)
    \/ FetchHistoric(1, ResolveRemotes)
    \/ FetchHistoricPanic(1)
    \/ FetchName(1, ResolveSearchRemotes)
    \/ AwaitTask
    \/ FinishCycle

SpecResolve == InitResolve /\ [][NextResolve]_vars

----------------------------------------------------------------------------
(* Specification SpecRefresh: create_live_portfolio_with_logging on        *)
(* documents of up to MaxPositions positions, the tasks running            *)
(* concurrently; a remote call succeeds or fails.                          *)

RefreshRemotes == {RemoteOk(Consistent(<<1>>)), RemoteErr("ConnectionFailed")}
RefreshSearchRemotes == {RemoteOk(<<n>>) : n \in Names} \cup {RemoteErr("ConnectionFailed")}

RefreshCatalogue == {CashPosition, NamedPosition, UnnamedPosition, FarLotPosition}
RefreshDocs ==
    {Doc(ps) : ps \in UNION {[1..n -> RefreshCatalogue] : n \in 0..MaxPositions}}
    \cup {Malformed}

InitRefresh ==
    /\ InitCaches
    /\ lookup = NoLookup
    /\ lookups = 0
    /\ InitCycle
    /\ InitHist
    /\ NoTui

NextRefresh ==
    \/ StartCycle(RefreshDocs)
    \/ StartCyclePanic(RefreshDocs)
    \/ \E i \in 1..MaxPositions :
          \/ ResolveCash(i)
          \/ FetchQuote(i, RefreshRemotes)
          \/ FetchPreviousClose(i, RefreshRemotes)
          \/ FetchHistoricPanic(i)
          \/ FetchName(i, RefreshSearchRemotes)
    \/ AwaitTask
    \/ FinishCycle

SpecRefresh == InitRefresh /\ [][NextRefresh]_vars

----------------------------------------------------------------------------
(* Specification SpecWarm: create_live_portfolio_with_logging called on    *)
(* the same document again and again: a first call with every kind of      *)
(* answer of the provider, then MaxCycles calls with the provider          *)
(* unreachable.  passLog records every call.                               *)

\* The provider is unreachable: every remote call fails to connect.
DownRemotes == {RemoteErr("ConnectionFailed")}

WarmDocs == ResolveDocs \cup {Doc(<<UnnamedPosition, CashPosition>>)}

\* The call and the log entry it starts: the first call on any document,
\* a later one on the same document.
StartPass(docs) ==
    /\ cycle \in {"idle", "done"}
    /\ cycles < MaxCycles + 1
    /\ \E doc \in (IF cycles = 0 THEN docs ELSE {Doc(positions)}) : BeginCycle(doc)
    /\ passLog' = Append(passLog, [before |-> caches, returned |-> FALSE,
                                   portfolio |-> <<>>, after |-> caches])
    /\ UNCHANGED <<histVars, tuiVars, sideVars, callVars, raceVars, formVars>>

FinishPass ==
    /\ EndCycle
    /\ passLog' = [passLog EXCEPT ![Len(passLog)] =
                      [@ EXCEPT !.returned = TRUE, !.portfolio = portfolio,
                                !.after = caches]]
    /\ UNCHANGED <<histVars, tuiVars, sideVars, callVars, raceVars, formVars>>

\* The answers of the provider during the call in progress.
PassRemotes == IF cycles = 1 THEN ResolveRemotes ELSE DownRemotes
PassSearchRemotes == IF cycles = 1 THEN ResolveSearchRemotes ELSE DownRemotes

InitWarm ==
    /\ InitCaches
    /\ lookup = NoLookup
    /\ lookups = 0
    /\ InitCycle
    /\ InitHist
    /\ NoTui

NextWarm ==
    \/ StartPass(WarmDocs)
    \/ \E i \in 1..MaxPositions :
          \/ ResolveCash(i)
          \/ FetchQuote(i, PassRemotes)
          \/ FetchPreviousClose(i, PassRemotes)
          \/ FetchHistoric(i, PassRemotes)
          \/ FetchHistoricPanic(i)
          \/ FetchName(i, PassSearchRemotes)
    \/ AwaitTask
    \/ FinishPass

SpecWarm == InitWarm /\ [][NextWarm]_vars

----------------------------------------------------------------------------
(* Historic aggregation: Portfolio::get_historic_total_value and           *)
(* Portfolio::get_historic_securities_value (portfolio.rs:47-163)          *)

HasTicker(p) == p.ticker # None

RECURSIVE SumQuantity(_, _)
SumQuantity(purchases, k) ==
    IF k = 0 THEN 0 ELSE SumQuantity(purchases, k - 1) + purchases[k].quantity

\* PortfolioPosition::get_amount (position.rs:78-84)
get_amount(p) ==
    IF p.purchases # <<>> THEN SumQuantity(p.purchases, Len(p.purchases)) ELSE p.amount

\* portfolio.rs:56-66: (ticker, amount, label) of the ticker-backed
\* positions, in the order of the positions.
positions_with_ticker(ps) ==
    LET held == SelectSeq(ps, HasTicker)
    IN [i \in 1..Len(held) |->
           [ticker |-> held[i].ticker[1], amount |-> get_amount(held[i]),
            label |-> held[i].ticker[1]]]

\* portfolio.rs:67-69
RECURSIVE cash_sum(_, _)
cash_sum(ps, k) ==
    IF k = 0 THEN 0
    ELSE cash_sum(ps, k - 1) + (IF HasTicker(ps[k]) THEN 0 ELSE get_amount(ps[k]))

\* Mutant: no error is skipped silently.
IsBadRequest_never(e) == FALSE

\* portfolio.rs:86-87: the text of the error contains "Bad Request".
IsBadRequest(e) == e = "BadRequest"

\* portfolio.rs:74-97: what one ticker adds to the sum and to the errors.
Contribution(entry, y_response) ==
    IF y_response.ok
    THEN IF y_response.val.last_quote # None
         THEN [add |-> y_response.val.last_quote[1] * entry.amount, warn |-> <<>>]
         ELSE [add |-> 0,
               warn |-> <<[what |-> "last quote", label |-> entry.label, err |-> "NoQuotes"]>>]
    ELSE IF IsBadRequest(y_response.err)
         THEN [add |-> 0, warn |-> <<>>]
         ELSE [add |-> 0,
               warn |-> <<[what |-> "historic price data", label |-> entry.label,
                           err |-> y_response.err]>>]

\* portfolio.rs:73-98: the loop over the zipped entries and results.
RECURSIVE Gathered(_, _, _)
Gathered(entries, results, k) ==
    IF k = 0 THEN [sum |-> 0, errors |-> <<>>]
    ELSE LET g == Gathered(entries, results, k - 1)
             c == Contribution(entries[k], results[k][1])
         IN [sum |-> g.sum + c.add, errors |-> g.errors \o c.warn]

\* Mutant: any warning makes the aggregate an error.
HistoricOutcome_any_warning(sum, errors) ==
    IF errors # <<>> THEN Err(errors) ELSE Ok(sum)

\* portfolio.rs:103-107: errors.join("; ") is the sequence of the warnings.
HistoricOutcome(sum, errors) ==
    IF sum <= 0 /\ errors # <<>> THEN Err(errors) ELSE Ok(sum)

get_historic_total_value(ps, results) ==
    LET entries == positions_with_ticker(ps)
        g == Gathered(entries, results, Len(entries))
        sum == g.sum + cash_sum(ps, Len(ps))
    IN [sum |-> sum, errors |-> g.errors, ret |-> HistoricOutcome(sum, g.errors)]

\* Mutant: the securities value counts the cash too.
get_historic_securities_value_with_cash(ps, results) ==
    get_historic_total_value(ps, results)

get_historic_securities_value(ps, results) ==
    LET entries == positions_with_ticker(ps)
        g == Gathered(entries, results, Len(entries))
    IN [sum |-> g.sum, errors |-> g.errors, ret |-> HistoricOutcome(g.sum, g.errors)]

\* portfolio.rs:47-70: a call on the portfolio starts one get_historic_price
\* per ticker-backed position.
HistoricStart(dates) ==
    /\ histPc \in {"idle", "done"}
    /\ histRuns < MaxAggregations
    /\ \E date \in dates, variant \in {"total", "securities"} :
          /\ histDate' = date
          /\ histVariant' = variant
    /\ histResults' = [i \in 1..Len(positions_with_ticker(histPositions)) |-> None]
    /\ histPc' = "fetching"
    /\ histRuns' = histRuns + 1
    /\ UNCHANGED <<cacheVars, histPositions, histSum, histErrors, histReturn, notHist>>

\* portfolio.rs:66, 72: the fetches run concurrently under join_all; the
\* fetch of entry i finishes.
HistoricFetch(remotes) ==
    /\ histPc = "fetching"
    /\ \E i \in 1..Len(histResults), r \in remotes :
          /\ histResults[i] = None
          /\ LET out == get_historic_price(HISTORIC_CACHE,
                            positions_with_ticker(histPositions)[i].ticker, histDate, r)
             IN /\ HISTORIC_CACHE' = out.cache
                /\ histResults' = [histResults EXCEPT ![i] = Some(out.res)]
    /\ UNCHANGED <<QUOTE_CACHE, PREV_CLOSE_CACHE, NAME_CACHE, lookup, lookups,
                   histPc, histRuns, histPositions, histDate, histVariant,
                   histSum, histErrors, histReturn, notHist>>

\* portfolio.rs:72-107: all fetches are in, the results are summed.
HistoricFinish ==
    /\ histPc = "fetching"
    /\ \A i \in 1..Len(histResults) : histResults[i] # None
    /\ LET out == IF histVariant = "total"
                  THEN get_historic_total_value(histPositions, histResults)
                  ELSE get_historic_securities_value(histPositions, histResults)
       IN /\ histSum' = out.sum
          /\ histErrors' = out.errors
          /\ histReturn' = out.ret
    /\ histPc' = "done"
    /\ UNCHANGED <<cacheVars, histRuns, histPositions, histDate, histVariant,
                   histResults, notHist>>

----------------------------------------------------------------------------
(* Specification SpecHistoric: historic aggregations of a portfolio of up  *)
(* to MaxHoldings positions, each fetch with any outcome.                  *)

MsftLotsPosition ==
    Position(Some("Microsoft"), Some("MSFT"), "Stock", 5,
             <<Purchase(Some("2020-01-01"), 1, Some(1), None),
               Purchase(None, 2, None, None)>>)

HistoricCatalogue ==
    {CashPosition, DebtPosition, SavingsPosition, NamedPosition, MsftLotsPosition}
HistoricPortfolios == UNION {[1..n -> HistoricCatalogue] : n \in 0..MaxHoldings}
HistoricDates == {20230101}
HistoricRemotes ==
    {RemoteOk(Consistent(<<0>>)), RemoteOk(Consistent(<<MaxClose>>)),
     RemoteOk(Consistent(<<>>))} \cup {RemoteErr(c) : c \in ErrorClasses}

InitHistoric ==
    /\ InitCaches
    /\ lookup = NoLookup
    /\ lookups = 0
    /\ InitCycle
    /\ histPositions \in HistoricPortfolios
    /\ histPc = "idle"
    /\ histRuns = 0
    /\ histDate = 0
    /\ histVariant = "total"
    /\ histResults = <<>>
    /\ histSum = 0
    /\ histErrors = <<>>
    /\ histReturn = Ok(0)
    /\ NoTui

NextHistoric ==
    \/ HistoricStart(HistoricDates)
    \/ HistoricFetch(HistoricRemotes)
    \/ HistoricFinish

SpecHistoric == InitHistoric /\ [][NextHistoric]_vars

----------------------------------------------------------------------------
(* The background refresh task of run_tui and the App that receives its    *)
(* results (tui.rs:565-577, 1052-1075)                                     *)

\* PortfolioPosition::get_name (position.rs:50-58)
get_name(p) ==
    IF p.name # None THEN p.name[1]
    ELSE IF p.ticker # None THEN p.ticker[1]
    ELSE "Unknown"

\* Mutant: every position is valued at its price times its quantity.
get_balance_spot_times_quantity(p) ==
    p.last_spot * (IF p.purchases # <<>>
                   THEN SumQuantity(p.purchases, Len(p.purchases))
                   ELSE p.amount)

\* Mutant: a ticker-backed position is valued at its price times its
\* declared amount, whatever its lots.
get_balance_declared_amount(p) ==
    IF p.ticker # None THEN p.last_spot * p.amount ELSE p.amount

\* PortfolioPosition::get_balance (position.rs:64-76)
get_balance(p) ==
    IF p.ticker # None
    THEN p.last_spot * (IF p.purchases # <<>>
                        THEN SumQuantity(p.purchases, Len(p.purchases))
                        ELSE p.amount)
    ELSE p.amount

\* Vec::sort_by is stable: a position goes in front of the first one of
\* smaller balance, behind the ones of equal balance.
RECURSIVE Placed(_, _)
Placed(sorted, p) ==
    IF sorted = <<>> THEN <<p>>
    ELSE IF get_balance(p) > get_balance(Head(sorted)) THEN <<p>> \o sorted
    ELSE <<Head(sorted)>> \o Placed(Tail(sorted), p)

RECURSIVE SortedPrefix(_, _)
SortedPrefix(ps, k) ==
    IF k = 0 THEN <<>> ELSE Placed(SortedPrefix(ps, k - 1), ps[k])

\* Portfolio::sort_positions_by_value_desc (portfolio.rs:28-34)
sort_positions_by_value_desc(ps) == SortedPrefix(ps, Len(ps))

\* tui.rs:614-635: one turn of the loop of update_trends.  The values are
\* integers, so the threshold of 0.01 never hides a change.
TrendStep(a, p) ==
    LET name == get_name(p)
        current_value == get_balance(p)
        trend ==
            IF name \in DOMAIN a.previous_values
            THEN IF current_value > a.previous_values[name] THEN "Up"
                 ELSE IF current_value < a.previous_values[name] THEN "Down"
                 ELSE IF name \in DOMAIN a.trends THEN a.trends[name]
                 ELSE "Neutral"
            ELSE "Neutral"
    IN [a EXCEPT !.trends = Put(a.trends, name, trend),
                 !.previous_values = Put(a.previous_values, name, current_value)]

\* App::update_trends (tui.rs:613-637)
RECURSIVE update_trends(_, _, _)
update_trends(a, ps, k) ==
    IF k = 0 THEN a ELSE TrendStep(update_trends(a, ps, k - 1), ps[k])

\* App::set_portfolio (tui.rs:590-593)
set_portfolio(a, ps) == [a EXCEPT !.portfolio = Some(ps), !.loading = FALSE]

\* App::mark_refreshed (tui.rs:639-642)
mark_refreshed(a) == [a EXCEPT !.flash_state = ~a.flash_state]

\* tui.rs:567-573: what try_receive_portfolio_update does with a message.
Received(a, msg) ==
    mark_refreshed(
        [set_portfolio(update_trends(a, msg.portfolio, Len(msg.portfolio)), msg.portfolio)
            EXCEPT !.network_status = msg.network_status])

\* tui.rs:1065-1066: the content of the positions file if it can be read
\* (file = Some(doc)), the initial string if not (file = None).
positions_str_current(file, positions_str) ==
    IF file = None THEN positions_str ELSE file[1]

\* tui.rs:1063-1068: a tick; the file is read and create_live_portfolio
\* starts on a well-formed document.
BgTick(files, positions_str) ==
    /\ bgPc = "waiting"
    /\ cycles < MaxCycles
    /\ \E file \in files :
          /\ ~IsMalformed(positions_str_current(file, positions_str))
          /\ BeginCycle(positions_str_current(file, positions_str))
    /\ bgPc' = "cycling"
    /\ UNCHANGED <<notTui, sideVars, portfolio_channel, receiver_open, published, app, last_read>>

\* tui.rs:1068, main.rs:92: the document read at the tick is malformed;
\* from_string panics in the background task itself, which ends and drops
\* the sender.
BgTickPanic(files, positions_str) ==
    /\ bgPc = "waiting"
    /\ cycles < MaxCycles
    /\ \E file \in files : IsMalformed(positions_str_current(file, positions_str))
    /\ BeginCyclePanic
    /\ bgPc' = "panicked"
    /\ UNCHANGED <<notTui, sideVars, portfolio_channel, receiver_open, published, app, last_read>>

\* tui.rs:1070-1073: create_live_portfolio has returned; the portfolio is
\* sorted and sent.  The channel is unbounded (tui.rs:1052): send appends
\* while the receiver lives and fails once it is dropped.
BgPublish ==
    /\ bgPc = "cycling"
    /\ cycle = "done"
    /\ IF receiver_open
       THEN /\ portfolio_channel' =
                  Append(portfolio_channel,
                         [portfolio |-> sort_positions_by_value_desc(portfolio),
                          network_status |-> network_status,
                          seq |-> published + 1])
            /\ published' = published + 1
            /\ bgPc' = "waiting"
       ELSE /\ bgPc' = "exited"
            /\ UNCHANGED <<portfolio_channel, published>>
    /\ UNCHANGED <<cacheVars, cycleVars, notTui, sideVars, receiver_open, app, last_read>>

\* App::try_receive_portfolio_update (tui.rs:565-577) when try_recv gives a
\* message: the oldest one.  On an empty channel it changes nothing.
TryReceive ==
    /\ receiver_open
    /\ side["ui"].pc = "waiting"
    /\ portfolio_channel # <<>>
    /\ app' = Received(app, Head(portfolio_channel))
    /\ portfolio_channel' = Tail(portfolio_channel)
    /\ last_read' = [got |-> Head(portfolio_channel).seq, latest |-> published]
    /\ UNCHANGED <<cacheVars, cycleVars, notTui, sideVars, bgPc, receiver_open, published>>

\* tui.rs:1099-1112: run_app has returned; the App and its two receivers
\* are dropped, and with them the messages not yet received.
Quit ==
    /\ receiver_open
    /\ side["ui"].pc = "waiting"
    /\ receiver_open' = FALSE
    /\ portfolio_channel' = <<>>
    /\ historic_channel' = <<>>
    /\ UNCHANGED <<cacheVars, cycleVars, notTui, side, weekly, historic_data, app_positions_str,
                   bgPc, published, app, last_read>>

----------------------------------------------------------------------------
(* Specification SpecTui: the background task ticks up to MaxCycles times  *)
(* while the App receives at its own pace; at a tick the positions file    *)
(* is unreadable, malformed or declares a cash and a ticker position.      *)

\* The document main has resolved before it calls run_tui (main.rs:318-321).
TuiInitialString == Doc(<<CashPosition>>)
TuiFiles ==
    {None, Some(Malformed), Some(Doc(<<CashPosition, NamedPosition>>))}
TuiRemotes == {RemoteOk(Consistent(<<MaxClose>>)), RemoteErr("ConnectionFailed")}

\* tui.rs:1043-1060: the App shows the portfolio main resolved and holds
\* the receiver; the background task is spawned.
InitTui ==
    /\ InitCaches
    /\ lookup = NoLookup
    /\ lookups = 0
    /\ InitCycle
    /\ InitHist
    /\ bgPc = "waiting"
    /\ portfolio_channel = <<>>
    /\ receiver_open = TRUE
    /\ published = 0
    /\ app = set_portfolio(NewApp, from_string(TuiInitialString))
    /\ last_read = [got |-> 0, latest |-> 0]
    /\ side = [o \in Owners |-> NoPass("waiting", 0)]
    /\ weekly = [o \in Owners |-> NoSeries]
    /\ historic_channel = <<>>
    /\ historic_data = None
    /\ app_positions_str = Some(TuiInitialString)

NextTui ==
    \/ BgTick(TuiFiles, TuiInitialString)
    \/ BgTickPanic(TuiFiles, TuiInitialString)
    \/ \E i \in 1..MaxPositions :
          \/ ResolveCash(i)
          \/ FetchQuote(i, TuiRemotes)
          \/ FetchPreviousClose(i, TuiRemotes)
    \/ AwaitTask
    \/ FinishCycle
    \/ BgPublish
    \/ TryReceive
    \/ Quit

SpecTui == InitTui /\ [][NextTui]_vars



----------------------------------------------------------------------------
(* compute_weekly_series_batch (tui.rs:321-427).  The clock is an input:   *)
(* age is the number of days from the earliest purchase date to now.       *)

\* tui.rs:344
max_weeks == 78

\* tui.rs:326-340: the earliest of the purchase dates that parse.
earliest(ps) ==
    LET ds == UNION {{parse_purchase_date(ps[i].purchases[j].date[1])[1] :
                         j \in {j \in 1..Len(ps[i].purchases) : Dated(ps[i].purchases[j])}} :
                     i \in 1..Len(ps)}
    IN IF ds = {} THEN None ELSE Some(CHOOSE d \in ds : \A e \in ds : d <= e)

\* tui.rs:343: num_days() / 7 rounds toward zero.
WholeWeeks(age) == IF age >= 0 THEN age \div 7 ELSE 0 - ((0 - age) \div 7)

\* tui.rs:343: `as usize` turns -1 weeks (a purchase dated one week ahead)
\* into the largest usize, and the `+ 1` overflows.
Overflows(age) == WholeWeeks(age) = 0 - 1

\* The two ways the program is built: with overflow checks, where the
\* overflowing `+ 1` panics, and without, where it wraps to 0.
Builds == {"debug", "release"}

\* tui.rs:343-347: `as usize` turns a number of weeks below -1 (a purchase
\* dated two weeks or more ahead) into one above 2^63, which the cap brings
\* down to max_weeks; -1 weeks wrap to 0 where the overflow does not panic.
total_weeks(age) ==
    LET weeks == WholeWeeks(age)
    IN IF Overflows(age) THEN 0
       ELSE IF weeks < 0 \/ weeks + 1 > max_weeks THEN max_weeks ELSE weeks + 1

\* Portfolio::get_total_value (portfolio.rs:36-43)
RECURSIVE get_total_value(_, _)
get_total_value(ps, k) ==
    IF k = 0 THEN 0 ELSE get_total_value(ps, k - 1) + get_balance(ps[k])

\* tui.rs:364-376: the state of one fetch.  It is pending until the
\* provider answers or the three seconds are over; resp is what the future
\* of the ticker gives join_all.
Pending == [state |-> "pending", resp |-> None]
Settled(remote) ==
    IF remote.kind = "ok" THEN [state |-> "responded", resp |-> Some(remote.val)]
    ELSE [state |-> "failed", resp |-> None]
TimedOut == [state |-> "timed_out", resp |-> None]

\* tui.rs:388-389, for the week w counted from 0:
\* round(w / max(total_weeks - 1, 1) * (qlen - 1)), at most qlen - 1.
SampleIndex(w, weeks, qlen) ==
    LET d == IF weeks - 1 > 1 THEN weeks - 1 ELSE 1
        idx == (2 * w * (qlen - 1) + d) \div (2 * d)
    IN IF idx < qlen - 1 THEN idx ELSE qlen - 1

\* tui.rs:385: qlen is quotes.len().max(1)
Qlen(quotes) == IF Len(quotes) > 1 THEN Len(quotes) ELSE 1

\* tui.rs:390: quotes[idx] is out of bounds; the index is always below
\* qlen, so that is the case of an empty quote list.
SamplePanics(fetch, weeks) ==
    /\ fetch.resp # None
    /\ fetch.resp[1].quotes_ok
    /\ \E w \in 0..(weeks - 1) :
          SampleIndex(w, weeks, Qlen(fetch.resp[1].quotes)) + 1 > Len(fetch.resp[1].quotes)

\* tui.rs:386-393: the closes sampled for the weeks 0..weeks-1.
Sampled(quotes, weeks) ==
    [w \in 1..weeks |-> quotes[SampleIndex(w - 1, weeks, Qlen(quotes)) + 1]]

\* tui.rs:381-400: the list grows by one weekly list for a response whose
\* quotes can be read and for a fetch without response (the flat list of
\* the amount), and by nothing for a response whose quotes cannot be read.
RECURSIVE per_ticker_weekly(_, _, _, _)
per_ticker_weekly(ticker_amounts, fetches, weeks, k) ==
    IF k = 0 THEN <<>>
    ELSE LET before == per_ticker_weekly(ticker_amounts, fetches, weeks, k - 1)
             resp_opt == fetches[k].resp
         IN IF resp_opt # None
            THEN IF resp_opt[1].quotes_ok
                 THEN Append(before, Sampled(resp_opt[1].quotes, weeks))
                 ELSE before
            ELSE Append(before, [w \in 1..weeks |-> ticker_amounts[k].amount])

\* tui.rs:405-411: the sum over the tickers for the week w.
RECURSIVE WeekTotal(_, _, _, _)
WeekTotal(ticker_amounts, lists, w, k) ==
    IF k = 0 THEN 0
    ELSE WeekTotal(ticker_amounts, lists, w, k - 1)
         + (IF k <= Len(lists) THEN lists[k][w] * ticker_amounts[k].amount ELSE 0)

\* tui.rs:402-426: the series once every fetch has settled; a point is
\* [x, y], x the week counted from 0.
Series(ps, fetches, weeks) ==
    LET ticker_amounts == positions_with_ticker(ps)
        lists == per_ticker_weekly(ticker_amounts, fetches, weeks, Len(ticker_amounts))
        sums == [w \in 1..weeks |->
                    [x |-> w - 1,
                     y |-> cash_sum(ps, Len(ps))
                           + WeekTotal(ticker_amounts, lists, w, Len(ticker_amounts))]]
        current_value == get_total_value(ps, Len(ps))
    IN IF current_value > 0
       THEN IF weeks > 0
            THEN [sums EXCEPT ![weeks] = [x |-> weeks - 1, y |-> current_value]]
            ELSE <<[x |-> 0, y |-> current_value]>>
       ELSE sums

\* tui.rs:326-378: the call, up to join_all.  Without a date that parses it
\* returns the empty series at once; the `+ 1` of tui.rs:343 panics on -1
\* weeks in a build with overflow checks, and the unwrap of tui.rs:360 on
\* an earliest date beyond the year 9999.  age is kept with the call, None
\* when no date parses.
Called(ps, age, build) ==
    IF earliest(ps) = None
    THEN [pc |-> "returned", age |-> None, weeks |-> 0, fetches |-> <<>>, series |-> <<>>]
    ELSE IF Overflows(age) /\ build = "debug"
    THEN [pc |-> "panicked", age |-> Some(age), weeks |-> 0, fetches |-> <<>>,
          series |-> <<>>]
    ELSE IF ~InTimeRange(earliest(ps)[1])
    THEN [pc |-> "panicked", age |-> Some(age), weeks |-> total_weeks(age),
          fetches |-> <<>>, series |-> <<>>]
    ELSE [pc |-> "fetching", age |-> Some(age), weeks |-> total_weeks(age),
          fetches |-> [i \in 1..Len(positions_with_ticker(ps)) |-> Pending],
          series |-> <<>>]

----------------------------------------------------------------------------
(* The callers of create_live_portfolio next to the background refresh     *)
(* task: the historic task of run_tui (tui.rs:1079-1097) and the manual    *)
(* refresh of run_app (tui.rs:1156-1174).  Each runs its own tasks against *)
(* the shared caches and then computes the weekly series.                  *)

\* main.rs:104-136: the loop over the finished tasks and the status.
RECURSIVE Collected(_, _)
Collected(ts, k) ==
    IF k = 0 THEN [portfolio |-> <<>>, ok |-> 0, failed |-> 0]
    ELSE LET c == Collected(ts, k - 1)
         IN IF ts[k].result.kind = "ok"
            THEN [c EXCEPT !.portfolio = Append(@, ts[k].result.pos), !.ok = @ + 1]
            ELSE [c EXCEPT !.failed = @ + 1]

\* handle_position (position.rs:284-349) from where the task t is to its
\* next await or to its end, on the answer r of the provider (s for the
\* name search): the task then, and the four caches.
Advanced(t, r, s) ==
    LET same == [task |-> t, quote |-> QUOTE_CACHE, prev |-> PREV_CLOSE_CACHE,
                 historic |-> HISTORIC_CACHE, name |-> NAME_CACHE]
    IN CASE t.pc = "start" /\ t.pos.ticker = None ->
                [same EXCEPT !.task = Return(t)]
         [] t.pc = "start" /\ t.pos.ticker # None ->
                LET out == get_quote_price(QUOTE_CACHE, t.pos.ticker[1], r)
                IN [same EXCEPT !.task = AfterQuote(t, out.res), !.quote = out.cache]
         [] t.pc = "prev" ->
                LET out == get_previous_close(PREV_CLOSE_CACHE, t.pos.ticker[1], r)
                IN [same EXCEPT !.task = [AfterPreviousClose(t, out.res)
                                             EXCEPT !.window = Some(r)],
                                !.prev = out.cache]
         [] t.pc = "fill" ->
                LET date == parse_purchase_date(t.pos.purchases[t.k].date[1])[1]
                    out == get_historic_price(HISTORIC_CACHE, t.pos.ticker[1], date, r)
                IN IF InTimeRange(date)
                   THEN [same EXCEPT !.task = [AfterHistoric(t, out.res)
                                                  EXCEPT !.fetched = Put(@, t.k, out.res)],
                                     !.historic = out.cache]
                   ELSE [same EXCEPT !.task = [t EXCEPT !.pc = "done", !.result = TaskPanic]]
         [] t.pc = "name" ->
                LET out == get_quote_name(NAME_CACHE, t.pos.ticker[1], s)
                IN [same EXCEPT !.task = AfterName(t, out.res), !.name = out.cache]

\* main.rs:92-102: the owner calls create_live_portfolio on the document.
Spawned(o, doc) ==
    [pc |-> "resolving", runs |-> side[o].runs + 1,
     tasks |-> [i \in 1..Len(from_string(doc)) |-> NewTask(from_string(doc)[i])],
     portfolio |-> <<>>, network_status |-> "None"]

\* tui.rs:1083-1088: a tick of the historic task; the file is read and
\* create_live_portfolio_with_logging starts on a well-formed document.
\* When the file cannot be read the task goes back to wait for the next
\* tick, which changes nothing.
HistTick(files) ==
    /\ side["historic"].pc = "waiting"
    /\ side["historic"].runs < MaxSideRuns
    /\ \E file \in files :
          /\ file # None
          /\ ~IsMalformed(file[1])
          /\ side' = [side EXCEPT !["historic"] = Spawned("historic", file[1])]
    /\ UNCHANGED <<cacheVars, cycleVars, notTui, tuiVars, weekly, historic_channel,
                   historic_data, app_positions_str>>

\* tui.rs:1088, main.rs:92: from_string panics in the historic task, which
\* ends and drops its sender.
HistTickPanic(files) ==
    /\ side["historic"].pc = "waiting"
    /\ side["historic"].runs < MaxSideRuns
    /\ \E file \in files : file # None /\ IsMalformed(file[1])
    /\ side' = [side EXCEPT !["historic"].pc = "panicked", !["historic"].runs = @ + 1]
    /\ UNCHANGED <<cacheVars, cycleVars, notTui, tuiVars, weekly, historic_channel,
                   historic_data, app_positions_str>>

\* tui.rs:1156-1164: the key 'r' in Normal mode; the file is read into
\* App.positions_str if it can be, and create_live_portfolio starts on
\* App.positions_str.  run_app awaits it: until the refresh is over the
\* loop neither draws nor reads the channels nor takes a key.
ManualRefresh(files) ==
    /\ receiver_open
    /\ side["ui"].pc = "waiting"
    /\ side["ui"].runs < MaxSideRuns
    /\ \E file \in files :
          LET str == positions_str_current(file, app_positions_str[1])
          IN /\ ~IsMalformed(str)
             /\ app_positions_str' = Some(str)
             /\ side' = [side EXCEPT !["ui"] = Spawned("ui", str)]
    /\ UNCHANGED <<cacheVars, cycleVars, notTui, tuiVars, weekly, historic_channel,
                   historic_data>>

\* tui.rs:1164, main.rs:92: from_string panics in run_app.
ManualRefreshPanic(files) ==
    /\ receiver_open
    /\ side["ui"].pc = "waiting"
    /\ side["ui"].runs < MaxSideRuns
    /\ \E file \in files :
          LET str == positions_str_current(file, app_positions_str[1])
          IN /\ IsMalformed(str)
             /\ app_positions_str' = Some(str)
    /\ side' = [side EXCEPT !["ui"].pc = "panicked", !["ui"].runs = @ + 1]
    /\ UNCHANGED <<cacheVars, cycleVars, notTui, tuiVars, weekly, historic_channel,
                   historic_data>>

\* One task of the owner's call runs on to its next await.
SideLookup(o, i, remotes, searches) ==
    /\ side[o].pc = "resolving"
    /\ i \in 1..Len(side[o].tasks)
    /\ side[o].tasks[i].pc # "done"
    /\ \E r \in remotes, s \in searches :
          LET a == Advanced(side[o].tasks[i], r, s)
          IN /\ side' = [side EXCEPT ![o].tasks[i] = a.task]
             /\ QUOTE_CACHE' = a.quote
             /\ PREV_CLOSE_CACHE' = a.prev
             /\ HISTORIC_CACHE' = a.historic
             /\ NAME_CACHE' = a.name
    /\ UNCHANGED <<lookup, lookups, cycleVars, notTui, tuiVars, weekly, historic_channel,
                   historic_data, app_positions_str>>

\* main.rs:104-138, tui.rs:1088-1092 and 1164-1168: every task is awaited,
\* create_live_portfolio returns, the portfolio is sorted and
\* compute_weekly_series_batch is called; a panic in it is a panic of the
\* caller.
SideSeries(o, ages) ==
    /\ side[o].pc = "resolving"
    /\ \A i \in 1..Len(side[o].tasks) : side[o].tasks[i].pc = "done"
    /\ \E age \in ages, build \in Builds :
          LET c == Collected(side[o].tasks, Len(side[o].tasks))
              sorted == sort_positions_by_value_desc(c.portfolio)
              call == Called(sorted, age, build)
          IN /\ weekly' = [weekly EXCEPT ![o] = call]
             /\ side' = [side EXCEPT
                            ![o].pc = IF call.pc = "panicked" THEN "panicked" ELSE "series",
                            ![o].portfolio = sorted,
                            ![o].network_status = StatusOf(c.ok, c.failed)]
    /\ UNCHANGED <<cacheVars, cycleVars, notTui, tuiVars, historic_channel, historic_data,
                   app_positions_str>>

\* tui.rs:366-372: the provider answers the fetch of ticker i in time.
FetchRespond(o, i, remotes) ==
    /\ weekly[o].pc = "fetching"
    /\ i \in 1..Len(weekly[o].fetches)
    /\ weekly[o].fetches[i] = Pending
    /\ \E r \in remotes : weekly' = [weekly EXCEPT ![o].fetches[i] = Settled(r)]
    /\ UNCHANGED <<cacheVars, cycleVars, notTui, tuiVars, side, historic_channel,
                   historic_data, app_positions_str>>

\* tui.rs:372-374: the three seconds of the fetch of ticker i are over
\* before the provider has answered.
FetchTimeout(o, i) ==
    /\ weekly[o].pc = "fetching"
    /\ i \in 1..Len(weekly[o].fetches)
    /\ weekly[o].fetches[i] = Pending
    /\ weekly' = [weekly EXCEPT ![o].fetches[i] = TimedOut]
    /\ UNCHANGED <<cacheVars, cycleVars, notTui, tuiVars, side, historic_channel,
                   historic_data, app_positions_str>>

\* Every fetch of the owner's call has settled: join_all returns.
Joined(o) ==
    /\ weekly[o].pc = "fetching"
    /\ \A i \in 1..Len(weekly[o].fetches) : weekly[o].fetches[i] # Pending

\* tui.rs:378-426: the series is built and returned.
SeriesBuild(o) ==
    /\ Joined(o)
    /\ \A i \in 1..Len(weekly[o].fetches) : ~SamplePanics(weekly[o].fetches[i], weekly[o].weeks)
    /\ weekly' = [weekly EXCEPT
                     ![o].pc = "returned",
                     ![o].series = Series(side[o].portfolio, weekly[o].fetches, weekly[o].weeks)]
    /\ UNCHANGED <<cacheVars, cycleVars, notTui, tuiVars, side, historic_channel,
                   historic_data, app_positions_str>>

\* tui.rs:390: sampling reads outside a quote list; the panic ends the
\* caller, the historic task or run_app.
SeriesBuildPanic(o) ==
    /\ Joined(o)
    /\ \E i \in 1..Len(weekly[o].fetches) : SamplePanics(weekly[o].fetches[i], weekly[o].weeks)
    /\ weekly' = [weekly EXCEPT ![o].pc = "panicked"]
    /\ side' = [side EXCEPT ![o].pc = "panicked"]
    /\ UNCHANGED <<cacheVars, cycleVars, notTui, tuiVars, historic_channel, historic_data,
                   app_positions_str>>

\* tui.rs:1093-1095: the historic task sends the series and waits for the
\* next tick; it ends when the receiver is gone.
HistPublish ==
    /\ side["historic"].pc = "series"
    /\ weekly["historic"].pc = "returned"
    /\ IF receiver_open
       THEN /\ historic_channel' = Append(historic_channel, weekly["historic"].series)
            /\ side' = [side EXCEPT !["historic"].pc = "waiting"]
       ELSE /\ side' = [side EXCEPT !["historic"].pc = "exited"]
            /\ UNCHANGED historic_channel
    /\ weekly' = [weekly EXCEPT !["historic"].pc = "idle"]
    /\ UNCHANGED <<cacheVars, cycleVars, notTui, tuiVars, historic_data, app_positions_str>>

\* tui.rs:1168-1173: the manual refresh shows what it has computed.
ManualRefreshEnd ==
    /\ side["ui"].pc = "series"
    /\ weekly["ui"].pc = "returned"
    /\ app' = Received(app, [portfolio |-> side["ui"].portfolio,
                             network_status |-> side["ui"].network_status])
    /\ historic_data' = Some(weekly["ui"].series)
    /\ side' = [side EXCEPT !["ui"].pc = "waiting"]
    /\ weekly' = [weekly EXCEPT !["ui"].pc = "idle"]
    /\ UNCHANGED <<cacheVars, cycleVars, notTui, bgPc, portfolio_channel, receiver_open,
                   published, last_read, historic_channel, app_positions_str>>

\* App::try_receive_historic_update (tui.rs:579-588) when try_recv gives a
\* series: the oldest one.  On an empty channel it changes nothing.
TryReceiveHistoric ==
    /\ receiver_open
    /\ side["ui"].pc = "waiting"
    /\ historic_channel # <<>>
    /\ historic_data' = Some(Head(historic_channel))
    /\ historic_channel' = Tail(historic_channel)
    /\ app' = mark_refreshed(app)
    /\ UNCHANGED <<cacheVars, cycleVars, notTui, bgPc, portfolio_channel, receiver_open,
                   published, last_read, side, weekly, app_positions_str>>

----------------------------------------------------------------------------
(* Specification SpecSeries: the historic task of run_tui ticks up to      *)
(* MaxSideRuns times; each fetch of the weekly series is answered or runs    *)
(* into its timeout; the App receives the series at its own pace.          *)

DatedPosition ==
    Position(Some("Apple"), Some("AAPL"), "Stock", 2,
             <<Purchase(Some("2020-01-01"), 2, Some(1), None)>>)
FarPricedPosition ==
    Position(Some("Apple"), Some("AAPL"), "Stock", 1,
             <<Purchase(Some("+10000-01-01"), 1, Some(1), None)>>)

SeriesFiles ==
    {None, Some(Malformed), Some(Doc(<<CashPosition>>)), Some(Doc(<<FarPricedPosition>>)),
     Some(Doc(<<DatedPosition, MsftLotsPosition>>))}
\* The answers to the lookups of the resolution.
SeriesRemotes == {RemoteOk(Consistent(<<MaxClose>>)), RemoteErr("ConnectionFailed")}
SeriesSearches == {RemoteOk(<<n>>) : n \in Names}
\* The answers to get_quote_history: two quotes, no quote, quotes that
\* cannot be read, an error.
SeriesHistories ==
    {RemoteOk(Consistent(<<1, MaxClose>>)), RemoteOk(Consistent(<<>>)),
     RemoteOk(YResponse(None, FALSE, <<>>)), RemoteErr("ConnectionFailed")}
\* Days from the earliest purchase to now: the same day, the second week,
\* more than max_weeks weeks, and a purchase dated eight and fifteen days
\* ahead.
SeriesAges == {0, 8, 7 * max_weeks, 0 - 8, 0 - 15}

InitSeries == InitTui

NextSeries ==
    \/ HistTick(SeriesFiles)
    \/ HistTickPanic(SeriesFiles)
    \/ \E i \in 1..MaxPositions :
          \/ SideLookup("historic", i, SeriesRemotes, SeriesSearches)
          \/ FetchRespond("historic", i, SeriesHistories)
          \/ FetchTimeout("historic", i)
    \/ SideSeries("historic", SeriesAges)
    \/ SeriesBuild("historic")
    \/ SeriesBuildPanic("historic")
    \/ HistPublish
    \/ TryReceiveHistoric
    \/ Quit

SpecSeries == InitSeries /\ [][NextSeries]_vars

----------------------------------------------------------------------------
(* Specification SpecManual: the background refresh task ticks while the   *)
(* user asks for up to MaxSideRuns manual refreshes.                       *)

ManualFiles == {None, Some(Malformed), Some(Doc(<<DatedPosition>>))}
\* The answer to the lookups of the manual refresh.
ManualRemotes == {RemoteOk(Consistent(<<MaxClose>>))}
ManualAges == {8}
ManualHistories == {RemoteOk(Consistent(<<1, MaxClose>>)), RemoteOk(Consistent(<<>>))}

InitManual == InitTui

NextManual ==
    \/ BgTick(TuiFiles, TuiInitialString)
    \/ BgTickPanic(TuiFiles, TuiInitialString)
    \/ \E i \in 1..MaxPositions :
          \/ ResolveCash(i)
          \/ FetchQuote(i, TuiRemotes)
          \/ FetchPreviousClose(i, TuiRemotes)
          \/ SideLookup("ui", i, ManualRemotes, SeriesSearches)
          \/ FetchRespond("ui", i, ManualHistories)
          \/ FetchTimeout("ui", i)
    \/ AwaitTask
    \/ FinishCycle
    \/ BgPublish
    \/ TryReceive
    \/ ManualRefresh(ManualFiles)
    \/ ManualRefreshPanic(ManualFiles)
    \/ SideSeries("ui", ManualAges)
    \/ SeriesBuild("ui")
    \/ SeriesBuildPanic("ui")
    \/ ManualRefreshEnd
    \/ Quit

SpecManual == InitManual /\ [][NextManual]_vars

----------------------------------------------------------------------------
(* The accessors of a position (position.rs:64-157)                        *)

MaxLots == 2        \* a position of SpecValue has at most MaxLots purchase lots

\* A quotient of two f64 values, kept as the pair it is computed from; two
\* quotients of non-zero divisors are equal when they cross-multiply.
Ratio(n, d) == [num |-> n, den |-> d]
SameRatio(a, b) == a.num * b.den = b.num * a.den

\* position.rs:114, 137: the lot has a price, and it is > 0.
Priced(lot) == lot.price # None /\ lot.price[1] > 0

\* fees.unwrap_or(0.0) (position.rs:117, 138)
FeesOf(lot) == IF lot.fees = None THEN 0 ELSE lot.fees[1]

\* position.rs:112-119: total_quantity over the lots with a price > 0.
RECURSIVE PricedQuantity(_, _)
PricedQuantity(purchases, k) ==
    IF k = 0 THEN 0
    ELSE PricedQuantity(purchases, k - 1)
         + (IF Priced(purchases[k]) THEN purchases[k].quantity ELSE 0)

\* position.rs:112-119, 135-140: quantity * price + fees over the lots with
\* a price > 0.
RECURSIVE PricedCost(_, _)
PricedCost(purchases, k) ==
    IF k = 0 THEN 0
    ELSE PricedCost(purchases, k - 1)
         + (IF Priced(purchases[k])
            THEN purchases[k].quantity * purchases[k].price[1] + FeesOf(purchases[k])
            ELSE 0)

\* Mutant: the cost is divided by the quantity of all the lots.
average_cost_all_lots(p) ==
    IF p.purchases = <<>> THEN None
    ELSE LET total_quantity == SumQuantity(p.purchases, Len(p.purchases))
             total_cost == PricedCost(p.purchases, Len(p.purchases))
         IN IF total_quantity > 0 THEN Some(Ratio(total_cost, total_quantity)) ELSE None

\* PortfolioPosition::average_cost (position.rs:106-128)
average_cost(p) ==
    IF p.purchases = <<>> THEN None
    ELSE LET total_quantity == PricedQuantity(p.purchases, Len(p.purchases))
             total_cost == PricedCost(p.purchases, Len(p.purchases))
         IN IF total_quantity > 0 THEN Some(Ratio(total_cost, total_quantity)) ELSE None

\* Mutant: the fees are left out of what was invested.
total_invested_without_fees(p) ==
    IF p.purchases = <<>> THEN None
    ELSE LET invested ==
                 PricedCost(p.purchases, Len(p.purchases))
                 - PricedCost([i \in 1..Len(p.purchases) |->
                                  [p.purchases[i] EXCEPT !.quantity = 0]],
                              Len(p.purchases))
         IN IF invested > 0 THEN Some(invested) ELSE None

\* PortfolioPosition::total_invested (position.rs:130-144)
total_invested(p) ==
    IF p.purchases = <<>> THEN None
    ELSE LET invested == PricedCost(p.purchases, Len(p.purchases))
         IN IF invested > 0 THEN Some(invested) ELSE None

\* PortfolioPosition::market_value (position.rs:102-104)
market_value(p) == get_balance(p)

\* PortfolioPosition::pnl (position.rs:146-149)
pnl(p) ==
    IF total_invested(p) = None THEN None
    ELSE Some(market_value(p) - total_invested(p)[1])

\* PortfolioPosition::historic_variation_percent (position.rs:151-157)
historic_variation_percent(p) ==
    IF total_invested(p) = None THEN None
    ELSE LET invested == total_invested(p)[1]
         IN IF invested <= 0 THEN None
            ELSE Some(Ratio((market_value(p) - invested) * 100, invested))

\* The accessors by name.
Accessors ==
    {"get_balance", "get_amount", "average_cost", "total_invested", "pnl",
     "historic_variation_percent"}

Apply(fn, p) ==
    CASE fn = "get_balance" -> get_balance(p)
      [] fn = "get_amount" -> get_amount(p)
      [] fn = "average_cost" -> average_cost(p)
      [] fn = "total_invested" -> total_invested(p)
      [] fn = "pnl" -> pnl(p)
      [] fn = "historic_variation_percent" -> historic_variation_percent(p)

\* One accessor is called on the position.
Access(fn) ==
    /\ subject # None
    /\ result' = Some([fn |-> fn, val |-> Apply(fn, subject[1])])
    /\ UNCHANGED <<notCall, subject>>

\* SpecValue: the accessors on one position.  The lots have a quantity of
\* 0 or 2, no price or one of 0..MaxClose, and no fees or fees of 1; the
\* position has a ticker or none, a declared amount of 3 and a price of
\* 1..MaxClose.
ValueLots ==
    {Purchase(None, q, pr, f) :
        q \in {0, 2}, pr \in {None} \cup {Some(c) : c \in 0..MaxClose},
        f \in {None, Some(1)}}
ValueLotLists == UNION {[1..n -> ValueLots] : n \in 0..MaxLots}
ValuePositions ==
    {[Position(None, t, "Stock", 3, ls) EXCEPT !.last_spot = s] :
        t \in {None, Some("AAPL")}, ls \in ValueLotLists, s \in 1..MaxClose}

InitValue ==
    /\ InitCaches
    /\ NoCycle
    /\ InitHist
    /\ NoTui
    /\ lookup = NoLookup
    /\ lookups = 0
    /\ NoRace
    /\ NoForm
    /\ subject \in {Some(p) : p \in ValuePositions}
    /\ result = None

NextValue == \E fn \in Accessors : Access(fn)

SpecValue == InitValue /\ [][NextValue]_vars

----------------------------------------------------------------------------
(* Portfolio::get_allocation (portfolio.rs:165-182)                        *)

\* The sum of two quotients, as the quotient it is.
AddRatio(a, b) == Ratio(a.num * b.den + b.num * a.den, a.den * b.den)

\* portfolio.rs:173: balance / total_value * 100.0
Percentage(p, ps) == Ratio(get_balance(p) * 100, get_total_value(ps, Len(ps)))

\* Mutant: a position overwrites the entry of its asset class.
Allocated_overwriting(allocation, asset_class, percentage) ==
    [c \in DOMAIN allocation \cup {asset_class} |->
        IF c = asset_class THEN percentage ELSE allocation[c]]

\* portfolio.rs:175-179: the percentage is added to the entry of the asset
\* class, which is inserted when the map has none.
Allocated(allocation, asset_class, percentage) ==
    [c \in DOMAIN allocation \cup {asset_class} |->
        IF c # asset_class THEN allocation[c]
        ELSE IF c \in DOMAIN allocation THEN AddRatio(allocation[c], percentage)
        ELSE percentage]

\* Portfolio::get_allocation (portfolio.rs:165-182) after the first k
\* positions.
RECURSIVE get_allocation(_, _)
get_allocation(ps, k) ==
    IF k = 0 THEN EmptyCache
    ELSE Allocated(get_allocation(ps, k - 1), ps[k].asset_class, Percentage(ps[k], ps))

\* The allocation of the portfolio is computed.
Allocate ==
    /\ subject # None
    /\ result' = Some([fn |-> "get_allocation",
                       val |-> get_allocation(subject[1], Len(subject[1]))])
    /\ UNCHANGED <<notCall, subject>>

\* The total value of the portfolio is computed.
TotalValue ==
    /\ subject # None
    /\ result' = Some([fn |-> "get_total_value",
                       val |-> get_total_value(subject[1], Len(subject[1]))])
    /\ UNCHANGED <<notCall, subject>>

\* SpecAllocation: the allocation of one portfolio of at most MaxHoldings
\* positions.  A position has a ticker and a price of MaxClose or neither,
\* one of three asset classes, two of which differ in the case of a letter
\* only, and an amount of -1, 1 or 2.
AssetClasses == {"Stock", "stock", "Cash"}
AllocationPositions ==
    {[Position(None, t, c, a, <<>>) EXCEPT !.last_spot = IF t = None THEN 0 ELSE MaxClose] :
        t \in {None, Some("AAPL")}, c \in AssetClasses, a \in {0 - 1, 1, 2}}
AllocationPortfolios == UNION {[1..n -> AllocationPositions] : n \in 0..MaxHoldings}

InitAllocation ==
    /\ InitCaches
    /\ NoCycle
    /\ InitHist
    /\ NoTui
    /\ lookup = NoLookup
    /\ lookups = 0
    /\ NoRace
    /\ NoForm
    /\ subject \in {Some(ps) : ps \in AllocationPortfolios}
    /\ result = None

NextAllocation == Allocate \/ TotalValue

SpecAllocation == InitAllocation /\ [][NextAllocation]_vars

----------------------------------------------------------------------------
(* The parsers of the command line: parse_tab (main.rs:171-176),           *)
(* Tab::from_str (tui.rs:463-469), Component (tui.rs:70-134) and           *)
(* DisabledComponents (tui.rs:149-178).  A String is a string.             *)

MaxListed == 2      \* --disable lists at most MaxListed names

UpperLetters == "ABCDEFGHIJKLMNOPQRSTUVWXYZ"
LowerLetters == "abcdefghijklmnopqrstuvwxyz"

\* The letter of `to` at the place c has in `from`, c itself when it is
\* not a letter of `from`.
Mapped(c, from, to) ==
    IF \E i \in 1..Len(from) : SubSeq(from, i, i) = c
    THEN LET i == CHOOSE i \in 1..Len(from) : SubSeq(from, i, i) = c
         IN SubSeq(to, i, i)
    ELSE c

\* str::to_lowercase
RECURSIVE to_lowercase(_)
to_lowercase(s) ==
    IF s = "" THEN "" ELSE Mapped(Head(s), UpperLetters, LowerLetters) \o to_lowercase(Tail(s))

\* str::to_uppercase
RECURSIVE to_uppercase(_)
to_uppercase(s) ==
    IF s = "" THEN "" ELSE Mapped(Head(s), LowerLetters, UpperLetters) \o to_uppercase(Tail(s))

\* char::is_whitespace, on the characters of the model.
Whitespace == {" ", "\t", "\n"}

\* str::trim
RECURSIVE trim_start(_)
trim_start(s) == IF s # "" /\ Head(s) \in Whitespace THEN trim_start(Tail(s)) ELSE s

RECURSIVE trim_end(_)
trim_end(s) ==
    IF s # "" /\ SubSeq(s, Len(s), Len(s)) \in Whitespace
    THEN trim_end(SubSeq(s, 1, Len(s) - 1))
    ELSE s

trim(s) == trim_end(trim_start(s))

\* Tab (tui.rs:430-433)
Tabs == {"Overview", "Balances"}

\* Tab::from_str (tui.rs:463-469): the string is lowercased, not trimmed.
Tab_from_str(s) ==
    CASE to_lowercase(s) = "overview" -> Some("Overview")
      [] to_lowercase(s) = "balances" -> Some("Balances")
      [] OTHER -> None

\* Mutant: a string that names no tab gives no tab.
parse_tab_without_default(tab_str) ==
    IF tab_str # None THEN Tab_from_str(tab_str[1]) ELSE Some("Overview")

\* Option::or
Or(a, b) == IF a # None THEN a ELSE b

\* parse_tab (main.rs:171-176)
parse_tab(tab_str) ==
    IF tab_str # None
    THEN Or(Tab_from_str(tab_str[1]), Some("Overview"))
    ELSE Some("Overview")

\* Component (tui.rs:28-46)
Components ==
    {"TabBar", "TotalValue", "AssetAllocation", "DetailedAllocation", "Help", "Name",
     "AssetClass", "Amount", "Price", "AvgCost", "Invested", "PnL", "Hist", "Daily",
     "Balance"}

\* Component::as_str (tui.rs:70-88)
as_str(c) ==
    CASE c = "TabBar" -> "tab_bar"
      [] c = "TotalValue" -> "total_value"
      [] c = "AssetAllocation" -> "asset_allocation"
      [] c = "DetailedAllocation" -> "detailed_allocation"
      [] c = "Help" -> "help"
      [] c = "Name" -> "name"
      [] c = "AssetClass" -> "asset_class"
      [] c = "Amount" -> "amount"
      [] c = "Price" -> "price"
      [] c = "AvgCost" -> "avg_cost"
      [] c = "Invested" -> "invested"
      [] c = "PnL" -> "pnl"
      [] c = "Hist" -> "%hist"
      [] c = "Daily" -> "%day"
      [] c = "Balance" -> "balance"

\* tui.rs:131: format!("Unknown component: '{s}'")
UnknownComponent(s) == "Unknown component: '" \o s \o "'"

\* tui.rs:115-132: the match on the name.
Matched(name, s) ==
    CASE name = "tab_bar" -> Ok("TabBar")
      [] name = "total_value" -> Ok("TotalValue")
      [] name = "asset_allocation" -> Ok("AssetAllocation")
      [] name = "detailed_allocation" -> Ok("DetailedAllocation")
      [] name = "help" -> Ok("Help")
      [] name = "name" -> Ok("Name")
      [] name = "asset_class" -> Ok("AssetClass")
      [] name = "amount" -> Ok("Amount")
      [] name = "price" -> Ok("Price")
      [] name = "avg_cost" -> Ok("AvgCost")
      [] name = "invested" -> Ok("Invested")
      [] name = "pnl" -> Ok("PnL")
      [] name = "%hist" \/ name = "hist" -> Ok("Hist")
      [] name = "%day" \/ name = "day" -> Ok("Daily")
      [] name = "balance" -> Ok("Balance")
      [] OTHER -> Err(UnknownComponent(s))

\* Mutant: the string is not trimmed.
Component_from_str_untrimmed(s) == Matched(to_lowercase(s), s)

\* Component::from_str (tui.rs:111-134)
Component_from_str(s) == Matched(to_lowercase(trim(s)), s)

\* tui.rs:153-160: the loop over the first k names of the list.
RECURSIVE Listed(_, _)
Listed(disabled_list, k) ==
    IF k = 0 THEN [disabled |-> {}, errors |-> <<>>]
    ELSE LET before == Listed(disabled_list, k - 1)
             parsed == Component_from_str(disabled_list[k])
         IN IF parsed.ok
            THEN [before EXCEPT !.disabled = @ \cup {parsed.val}]
            ELSE [before EXCEPT !.errors = Append(@, parsed.err)]

\* DisabledComponents::new (tui.rs:149-167)
DisabledComponents_new(disabled_list) ==
    LET done == Listed(disabled_list, Len(disabled_list))
    IN IF done.errors = <<>> THEN Ok([disabled |-> done.disabled]) ELSE Err(done.errors)

\* DisabledComponents::is_disabled (tui.rs:174-176)
is_disabled(self, component) == component \in self.disabled

\* The inputs of SpecCli.  A text is written from a name in one of three
\* letter cases and between two paddings; `of` keeps what it was written
\* from, None for a text that is no name.
Cased(name, style) ==
    CASE style = "lower" -> name
      [] style = "upper" -> to_uppercase(name)
      [] style = "title" -> to_uppercase(Head(name)) \o Tail(name)
Styles == {"lower", "upper", "title"}
Paddings == {<<"", "">>, <<" ", "">>, <<"", "\t">>, <<" ", " \n">>}

\* The names from_str accepts for a component: as_str and the two short
\* forms of tui.rs:127-128.
NamesOf(c) ==
    {as_str(c)} \cup (IF c = "Hist" THEN {"hist"} ELSE IF c = "Daily" THEN {"day"} ELSE {})

ComponentTexts ==
    UNION {{[of |-> Some(c), text |-> pad[1] \o Cased(n, st) \o pad[2]] :
               n \in NamesOf(c), st \in Styles, pad \in Paddings} : c \in Components}
UnknownTexts ==
    {[of |-> None, text |-> t] :
        t \in {"", " ", "tab bar", "tabbar", "balances", "%", "pn l", "help!", "%%day"}}

TabArgs ==
    {[of |-> Some(t), arg |-> Some(Cased(to_lowercase(t), st))] : t \in Tabs, st \in Styles}
    \cup {[of |-> None, arg |-> a] :
             a \in {None, Some(""), Some(" balances"), Some("balances "), Some("balance"),
                    Some("tab"), Some("overview\n")}}

ListedTexts ==
    {[of |-> Some("Help"), text |-> "help"], [of |-> Some("PnL"), text |-> " PNL "],
     [of |-> Some("Hist"), text |-> "hist"], [of |-> Some("Hist"), text |-> "%hist"],
     [of |-> None, text |-> "bogus"], [of |-> None, text |-> ""]}
DisabledLists == UNION {[1..n -> ListedTexts] : n \in 0..MaxListed}

TextsOf(items) == [i \in 1..Len(items) |-> items[i].text]

\* main.rs:316: the --tab argument is parsed.
ParseTab ==
    /\ subject # None
    /\ subject[1].kind = "tab"
    /\ result' = Some([fn |-> "parse_tab", val |-> parse_tab(subject[1].input.arg)])
    /\ UNCHANGED <<notCall, subject>>

\* A component is read from a string.
FromStr ==
    /\ subject # None
    /\ subject[1].kind = "component"
    /\ result' = Some([fn |-> "from_str", val |-> Component_from_str(subject[1].input.text)])
    /\ UNCHANGED <<notCall, subject>>

\* main.rs:191: the --disable list is validated.
NewDisabled ==
    /\ subject # None
    /\ subject[1].kind = "list"
    /\ result' = Some([fn |-> "new", val |-> DisabledComponents_new(TextsOf(subject[1].input))])
    /\ UNCHANGED <<notCall, subject>>

InitCli ==
    /\ InitCaches
    /\ NoCycle
    /\ InitHist
    /\ NoTui
    /\ lookup = NoLookup
    /\ lookups = 0
    /\ NoRace
    /\ NoForm
    /\ subject \in {Some([kind |-> "tab", input |-> a]) : a \in TabArgs}
                   \cup {Some([kind |-> "component", input |-> t]) :
                            t \in ComponentTexts \cup UnknownTexts}
                   \cup {Some([kind |-> "list", input |-> l]) : l \in DisabledLists}
    /\ result = None

NextCli == ParseTab \/ FromStr \/ NewDisabled

SpecCli == InitCli /\ [][NextCli]_vars

----------------------------------------------------------------------------
(* The terminal of run_tui (tui.rs:1030-1041, 1099-1113).  The call is the *)
(* subject: where it is, the list it was given, and the state it has put   *)
(* the terminal in.  A call of crossterm or ratatui that returns           *)
(* io::Result succeeds or fails as the terminal decides.                   *)

RunTui(disabled_components) ==
    [kind |-> "run_tui", input |-> disabled_components, pc |-> "enable_raw_mode",
     raw_mode |-> FALSE, alternate_screen |-> FALSE, mouse_capture |-> FALSE,
     entered |-> FALSE,     \* both calls of tui.rs:1030-1032 have succeeded
     res |-> None]

AtTui(pc) == subject # None /\ subject[1].kind = "run_tui" /\ subject[1].pc = pc

\* The `?` of a failed call: run_tui returns the error at once.
TuiReturned(self, value) ==
    /\ subject' = Some([self EXCEPT !.pc = "returned"])
    /\ result' = Some([fn |-> "run_tui", val |-> value])
    /\ UNCHANGED notCall

TuiContinued(self, pc) ==
    /\ subject' = Some([self EXCEPT !.pc = pc])
    /\ UNCHANGED <<notCall, result>>

\* tui.rs:1030
TuiEnableRawMode ==
    /\ AtTui("enable_raw_mode")
    /\ \/ TuiContinued([subject[1] EXCEPT !.raw_mode = TRUE], "enter_screen")
       \/ TuiReturned(subject[1], Err("io"))

\* tui.rs:1031-1032: a failed execute! may have written either command.
TuiEnterScreen ==
    /\ AtTui("enter_screen")
    /\ \/ TuiContinued([subject[1] EXCEPT !.alternate_screen = TRUE, !.mouse_capture = TRUE,
                                       !.entered = TRUE], "new_terminal")
       \/ \E screen \in BOOLEAN, mouse \in BOOLEAN :
             /\ screen \/ ~mouse
             /\ TuiReturned([subject[1] EXCEPT !.alternate_screen = screen,
                                               !.mouse_capture = mouse], Err("io"))

\* tui.rs:1033-1034
TuiNewTerminal ==
    /\ AtTui("new_terminal")
    /\ \/ TuiContinued(subject[1], "disabled")
       \/ TuiReturned(subject[1], Err("io"))

\* tui.rs:1036-1041
TuiDisabled ==
    /\ AtTui("disabled")
    /\ LET disabled == DisabledComponents_new(TextsOf(subject[1].input))
       IN IF disabled.ok
          THEN TuiContinued(subject[1], "run_app")
          ELSE TuiReturned(subject[1], Err(<<"Invalid disabled components">> \o disabled.err))

\* tui.rs:1099: run_app returns when the user quits or when drawing or
\* reading an event fails.
TuiRunApp ==
    /\ AtTui("run_app")
    /\ \E res \in {Ok(<<>>), Err("io")} :
          TuiContinued([subject[1] EXCEPT !.res = Some(res)], "disable_raw_mode")

\* tui.rs:1101
TuiDisableRawMode ==
    /\ AtTui("disable_raw_mode")
    /\ \/ TuiContinued([subject[1] EXCEPT !.raw_mode = FALSE], "leave_screen")
       \/ TuiReturned(subject[1], Err("io"))

\* tui.rs:1102-1106: a failed execute! may have written either command.
TuiLeaveScreen ==
    /\ AtTui("leave_screen")
    /\ \/ TuiContinued([subject[1] EXCEPT !.alternate_screen = FALSE, !.mouse_capture = FALSE],
                    "show_cursor")
       \/ \E screen \in BOOLEAN, mouse \in BOOLEAN :
             /\ screen \/ ~mouse
             /\ TuiReturned([subject[1] EXCEPT !.alternate_screen = screen,
                                            !.mouse_capture = mouse], Err("io"))

\* tui.rs:1107
TuiShowCursor ==
    /\ AtTui("show_cursor")
    /\ \/ TuiContinued(subject[1], "return")
       \/ TuiReturned(subject[1], Err("io"))

\* tui.rs:1109-1113: the error of run_app is printed, run_tui returns Ok.
TuiReturn ==
    /\ AtTui("return")
    /\ TuiReturned(subject[1], Ok(<<>>))

----------------------------------------------------------------------------
(* Specification SpecTerminal: one call of run_tui with any --disable list *)
(* of up to MaxListed names.                                               *)

InitTerminal ==
    /\ InitCaches
    /\ NoCycle
    /\ InitHist
    /\ NoTui
    /\ lookup = NoLookup
    /\ lookups = 0
    /\ NoRace
    /\ NoForm
    /\ subject \in {Some(RunTui(l)) : l \in DisabledLists}
    /\ result = None

NextTerminal ==
    \/ TuiEnableRawMode
    \/ TuiEnterScreen
    \/ TuiNewTerminal
    \/ TuiDisabled
    \/ TuiRunApp
    \/ TuiDisableRawMode
    \/ TuiLeaveScreen
    \/ TuiShowCursor
    \/ TuiReturn

SpecTerminal == InitTerminal /\ [][NextTerminal]_vars

----------------------------------------------------------------------------
(* Two lookups in flight at once.  The tasks of handle_position are        *)
(* spawned on the multi-threaded runtime of #[tokio::main] (main.rs:99-102,*)
(* 178), so two of them run in parallel.  In get_quote_price and           *)
(* get_historic_price the insert and the read-back are two statements,     *)
(* each taking and releasing the lock of the cache (position.rs:184-185,   *)
(* 249-250): another task can take the lock in between.                    *)

\* The racing lookups.
Racers == {1, 2}

\* The cache a lookup works on, and its key.
CacheOf(r) == IF r.fn = "get_quote_price" THEN QUOTE_CACHE ELSE HISTORIC_CACHE

\* A lookup that has sent its remote call.
Calling(fn, key) ==
    [fn |-> fn, key |-> key, pc |-> "calling", fetched |-> None, returned |-> None]

\* position.rs:183-184, 248-249: the remote call succeeded and the response
\* is inserted under the lock; position.rs:187-192, 252-258: it failed and
\* the cache is read under the lock.
Answered(r, cache, remote) ==
    CASE remote.kind = "ok" -> [r EXCEPT !.pc = "inserted", !.fetched = Some(remote.val)]
      [] remote.kind = "new_err" ->
            [r EXCEPT !.pc = "done", !.returned = Some(Err(ErrorOf(remote)))]
      [] remote.kind = "err" ->
            [r EXCEPT !.pc = "done",
                      !.returned = Some(IF r.key \in DOMAIN cache THEN Ok(cache[r.key])
                                        ELSE Err(remote.class))]

\* position.rs:185, 250: the lock is taken again and the key is read back;
\* the unwrap panics when the key is not there.
ReadBack(r, cache) ==
    IF r.key \in DOMAIN cache
    THEN [r EXCEPT !.pc = "done", !.returned = Some(Ok(cache[r.key]))]
    ELSE [r EXCEPT !.pc = "panicked"]

\* The remote call of lookup i comes back.
RaceAnswer(i, remotes) ==
    /\ racers # <<>>
    /\ racers[i].pc = "calling"
    /\ \E remote \in remotes :
          /\ racers' = [racers EXCEPT ![i] = Answered(@, CacheOf(@), remote)]
          /\ IF remote.kind # "ok" THEN UNCHANGED <<QUOTE_CACHE, HISTORIC_CACHE>>
             ELSE IF racers[i].fn = "get_quote_price"
             THEN /\ QUOTE_CACHE' = Put(QUOTE_CACHE, racers[i].key, remote.val)
                  /\ UNCHANGED HISTORIC_CACHE
             ELSE /\ HISTORIC_CACHE' = Put(HISTORIC_CACHE, racers[i].key, remote.val)
                  /\ UNCHANGED QUOTE_CACHE
    /\ UNCHANGED <<PREV_CLOSE_CACHE, NAME_CACHE, lookup, lookups, cycleVars, histVars,
                   tuiVars, logVars, sideVars, callVars, formVars>>

\* Lookup i reads back what the cache holds for its key.
RaceReadBack(i) ==
    /\ racers # <<>>
    /\ racers[i].pc = "inserted"
    /\ racers' = [racers EXCEPT ![i] = ReadBack(@, CacheOf(@))]
    /\ UNCHANGED <<cacheVars, cycleVars, histVars, tuiVars, logVars, sideVars, callVars,
                   formVars>>

\* SpecRace: two lookups by the same function, of the same key or of two
\* keys, against caches that are empty at first.  The provider answers a
\* response of one quote, or fails.
RaceKeys(fn) ==
    IF fn = "get_quote_price" THEN Tickers ELSE {<<t, d>> : t \in Tickers, d \in HistoricDates}
RaceRemotes ==
    {RemoteOk(Consistent(<<c>>)) : c \in 1..MaxClose} \cup RemoteFailures

InitRace ==
    /\ InitCaches
    /\ lookup = NoLookup
    /\ lookups = 0
    /\ NoCall
    /\ NoForm
    /\ NoCycle
    /\ InitHist
    /\ NoTui
    /\ \E fn \in {"get_quote_price", "get_historic_price"} :
          racers \in {<<Calling(fn, k1), Calling(fn, k2)>> : k1, k2 \in RaceKeys(fn)}

NextRace ==
    \E i \in Racers :
        \/ RaceAnswer(i, RaceRemotes)
        \/ RaceReadBack(i)

SpecRace == InitRace /\ [][NextRace]_vars

----------------------------------------------------------------------------
(* The purchase forms of the App (tui.rs:664-1010) and the keys of run_app *)
(* (tui.rs:1115-1363).  The inputs are strings.  The legacy mode Edit is   *)
(* never entered and edit_input never written: both are left out.          *)

MaxTyped == 1       \* a key adds a character to an input of fewer than MaxTyped characters
MaxSaves == 1       \* Enter is pressed in a purchase form at most MaxSaves times

DigitChars == "0123456789"

\* char::is_ascii_digit
is_ascii_digit(c) == \E i \in 1..Len(DigitChars) : SubSeq(DigitChars, i, i) = c

DigitValue(c) == (CHOOSE i \in 1..Len(DigitChars) : SubSeq(DigitChars, i, i) = c) - 1

\* current.chars().filter(|c| c.is_ascii_digit()).count() (tui.rs:1257)
RECURSIVE digit_count(_)
digit_count(s) ==
    IF s = "" THEN 0
    ELSE (IF is_ascii_digit(Head(s)) THEN 1 ELSE 0) + digit_count(Tail(s))

\* str::contains(char)
RECURSIVE contains(_, _)
contains(s, c) == s # "" /\ (Head(s) = c \/ contains(Tail(s), c))

\* String::pop: the string without its last character.
pop(s) == IF s = "" THEN "" ELSE SubSeq(s, 1, Len(s) - 1)

\* The number a string of digits writes, 0 for the empty string.
RECURSIVE DigitsValue(_)
DigitsValue(s) ==
    IF s = "" THEN 0
    ELSE DigitsValue(pop(s)) * 10 + DigitValue(SubSeq(s, Len(s), Len(s)))

RECURSIVE AllDigits(_)
AllDigits(s) == s = "" \/ (is_ascii_digit(Head(s)) /\ AllDigits(Tail(s)))

\* The place of the first '.' of s, 0 when it has none.
RECURSIVE DotAt(_, _)
DotAt(s, k) ==
    IF k > Len(s) THEN 0 ELSE IF SubSeq(s, k, k) = "." THEN k ELSE DotAt(s, k + 1)

\* str::parse::<f64> on the strings of the model: an optional sign, digits
\* with at most one '.', at least one digit; blanks are not accepted.  The
\* digits after the '.' are zeros in the model, where an f64 is an integer.
parse_f64(s) ==
    LET signed == s # "" /\ Head(s) \in {"-", "+"}
        body == IF signed THEN Tail(s) ELSE s
        dot == DotAt(body, 1)
        whole == IF dot = 0 THEN body ELSE SubSeq(body, 1, dot - 1)
        fraction == IF dot = 0 THEN "" ELSE SubSeq(body, dot + 1, Len(body))
    IN IF AllDigits(whole) /\ AllDigits(fraction) /\ (whole # "" \/ fraction # "")
       THEN Ok(IF signed /\ Head(s) = "-" THEN 0 - DigitsValue(whole) ELSE DigitsValue(whole))
       ELSE Err("invalid float literal")

\* f64::to_string of an integer value.
RECURSIVE NatToString(_)
NatToString(n) ==
    IF n < 10 THEN SubSeq(DigitChars, n + 1, n + 1)
    ELSE NatToString(n \div 10) \o SubSeq(DigitChars, (n % 10) + 1, (n % 10) + 1)

f64_to_string(x) == IF x < 0 THEN "-" \o NatToString(0 - x) ELSE NatToString(x)

\* str::cmp on the characters of the dates of the model: a < b.
CharOrder == " +-./0123456789"
Rank(c) == CHOOSE i \in 1..Len(CharOrder) : SubSeq(CharOrder, i, i) = c

RECURSIVE StrLess(_, _)
StrLess(a, b) ==
    IF b = "" THEN FALSE
    ELSE IF a = "" THEN TRUE
    ELSE IF Head(a) = Head(b) THEN StrLess(Tail(a), Tail(b))
    ELSE Rank(Head(a)) < Rank(Head(b))

\* App::new (tui.rs:516-549): the fields of the forms.  saves counts the
\* calls of save_new_purchase and save_edited_purchase.
NewForm ==
    [mode |-> "Normal", current_tab |-> "Overview", selected_position |-> 0,
     selected_purchase |-> 0, edit_field |-> "Date", purchase_date_input |-> "",
     purchase_quantity_input |-> "", purchase_price_input |-> "",
     error_message |-> None, saves |-> 0]

\* App::next_tab and App::previous_tab (tui.rs:595-611): of two tabs, the
\* other one.
next_tab(self) ==
    [self EXCEPT !.current_tab = IF @ = "Overview" THEN "Balances" ELSE "Overview"]

\* App::select_next (tui.rs:664-670)
select_next(self, shown) ==
    IF shown # None /\ self.selected_position < Max0(Len(shown[1]) - 1)
    THEN [self EXCEPT !.selected_position = @ + 1]
    ELSE self

\* App::select_previous (tui.rs:672-676)
select_previous(self) ==
    IF self.selected_position > 0 THEN [self EXCEPT !.selected_position = @ - 1] ELSE self

\* App::enter_edit_mode (tui.rs:678-685)
enter_edit_mode(self, shown) ==
    IF shown # None /\ self.selected_position < Len(shown[1])
    THEN [self EXCEPT !.mode = "PurchaseList", !.selected_purchase = 0]
    ELSE self

\* Mutant: the mode goes back to Normal with the inputs as they are.
exit_edit_mode_keeping_inputs(self) == [self EXCEPT !.mode = "Normal"]

\* App::exit_edit_mode (tui.rs:687-693)
exit_edit_mode(self) ==
    [self EXCEPT !.mode = "Normal", !.purchase_date_input = "",
                 !.purchase_quantity_input = "", !.purchase_price_input = ""]

\* App::select_next_purchase (tui.rs:695-705)
select_next_purchase(self, shown) ==
    IF /\ shown # None
       /\ self.selected_position < Len(shown[1])
       /\ self.selected_purchase < Len(shown[1][self.selected_position + 1].purchases)
    THEN [self EXCEPT !.selected_purchase = @ + 1]
    ELSE self

\* App::select_previous_purchase (tui.rs:707-711)
select_previous_purchase(self) ==
    IF self.selected_purchase > 0 THEN [self EXCEPT !.selected_purchase = @ - 1] ELSE self

\* Mutant: the form opened for a new purchase is the form of an edit.
enter_add_purchase_mode_as_edit(self) ==
    [self EXCEPT !.mode = "EditPurchase", !.edit_field = "Date", !.purchase_date_input = "",
                 !.purchase_quantity_input = "", !.purchase_price_input = ""]

\* App::enter_add_purchase_mode (tui.rs:713-719)
enter_add_purchase_mode(self) ==
    [self EXCEPT !.mode = "AddPurchase", !.edit_field = "Date", !.purchase_date_input = "",
                 !.purchase_quantity_input = "", !.purchase_price_input = ""]

\* date.as_deref().unwrap_or("") (tui.rs:733-734)
DateKey(purchase) == IF purchase.date = None THEN "" ELSE purchase.date[1]

\* tui.rs:731-736: the indices of the lots, newest date first; sort_by is
\* stable, so an index goes in front of the first one of an older date.
RECURSIVE PlacedLot(_, _, _)
PlacedLot(sorted, i, purchases) ==
    IF sorted = <<>> THEN <<i>>
    ELSE IF StrLess(DateKey(purchases[Head(sorted)]), DateKey(purchases[i]))
    THEN <<i>> \o sorted
    ELSE <<Head(sorted)>> \o PlacedLot(Tail(sorted), i, purchases)

RECURSIVE purchase_list(_, _)
purchase_list(purchases, k) ==
    IF k = 0 THEN <<>> ELSE PlacedLot(purchase_list(purchases, k - 1), k, purchases)

\* tui.rs:746-762: the price the document holds for the lot at
\* original_index of the position at selected_position, as a string; the
\* empty string when it holds none.
price_from_json(self, positions_str, original_index) ==
    IF /\ ~IsMalformed(positions_str)
       /\ self.selected_position < Len(json_values(positions_str))
       /\ original_index
              <= Len(json_values(positions_str)[self.selected_position + 1].purchases)
       /\ json_values(positions_str)[self.selected_position + 1]
              .purchases[original_index].price # None
    THEN f64_to_string(json_values(positions_str)[self.selected_position + 1]
                           .purchases[original_index].price[1])
    ELSE ""

\* App::enter_edit_purchase_mode (tui.rs:721-769)
enter_edit_purchase_mode(self, shown, positions_str) ==
    IF /\ shown # None
       /\ self.selected_position < Len(shown[1])
       /\ self.selected_purchase > 0
       /\ self.selected_purchase <= Len(shown[1][self.selected_position + 1].purchases)
    THEN LET purchases == shown[1][self.selected_position + 1].purchases
             original_index == purchase_list(purchases, Len(purchases))[self.selected_purchase]
             purchase == purchases[original_index]
         IN [self EXCEPT
                !.mode = "EditPurchase",
                !.edit_field = "Date",
                !.purchase_date_input = DateKey(purchase),
                !.purchase_quantity_input = f64_to_string(purchase.quantity),
                !.purchase_price_input = price_from_json(self, positions_str, original_index)]
    ELSE self

\* App::next_edit_field (tui.rs:771-777)
next_edit_field(self) ==
    [self EXCEPT !.edit_field = CASE @ = "Date" -> "Quantity"
                                  [] @ = "Quantity" -> "Price"
                                  [] @ = "Price" -> "Date"]

\* App::previous_edit_field (tui.rs:779-785)
previous_edit_field(self) ==
    [self EXCEPT !.edit_field = CASE @ = "Date" -> "Price"
                                  [] @ = "Quantity" -> "Date"
                                  [] @ = "Price" -> "Quantity"]

\* App::get_current_input (tui.rs:787-793)
get_current_input(self) ==
    CASE self.edit_field = "Date" -> self.purchase_date_input
      [] self.edit_field = "Quantity" -> self.purchase_quantity_input
      [] self.edit_field = "Price" -> self.purchase_price_input

\* App::get_current_input_mut (tui.rs:795-801), written with s.
set_current_input(self, s) ==
    CASE self.edit_field = "Date" -> [self EXCEPT !.purchase_date_input = s]
      [] self.edit_field = "Quantity" -> [self EXCEPT !.purchase_quantity_input = s]
      [] self.edit_field = "Price" -> [self EXCEPT !.purchase_price_input = s]

\* Mutant: a quantity of zero passes the validation.
Validated_zero_quantity(self) ==
    IF trim(self.purchase_date_input) = "" THEN Err("Date is required")
    ELSE IF trim(self.purchase_quantity_input) = "" THEN Err("Quantity is required")
    ELSE IF ~parse_f64(self.purchase_quantity_input).ok THEN Err("Invalid quantity format")
    ELSE IF parse_f64(self.purchase_quantity_input).val < 0
    THEN Err("Quantity must be positive")
    ELSE IF trim(self.purchase_price_input) = ""
    THEN Ok([quantity |-> parse_f64(self.purchase_quantity_input).val, price |-> 0])
    ELSE IF ~parse_f64(self.purchase_price_input).ok THEN Err("Invalid price format")
    ELSE IF parse_f64(self.purchase_price_input).val < 0 THEN Err("Price cannot be negative")
    ELSE Ok([quantity |-> parse_f64(self.purchase_quantity_input).val,
             price |-> parse_f64(self.purchase_price_input).val])

\* tui.rs:805-829 and 839-863: the validation of the three inputs, the same
\* in save_edited_purchase and save_new_purchase; the emptiness tests trim,
\* the two parses do not.
Validated(self) ==
    IF trim(self.purchase_date_input) = "" THEN Err("Date is required")
    ELSE IF trim(self.purchase_quantity_input) = "" THEN Err("Quantity is required")
    ELSE IF ~parse_f64(self.purchase_quantity_input).ok THEN Err("Invalid quantity format")
    ELSE IF parse_f64(self.purchase_quantity_input).val <= 0
    THEN Err("Quantity must be positive")
    ELSE IF trim(self.purchase_price_input) = ""
    THEN Ok([quantity |-> parse_f64(self.purchase_quantity_input).val, price |-> 0])
    ELSE IF ~parse_f64(self.purchase_price_input).ok THEN Err("Invalid price format")
    ELSE IF parse_f64(self.purchase_price_input).val < 0 THEN Err("Price cannot be negative")
    ELSE Ok([quantity |-> parse_f64(self.purchase_quantity_input).val,
             price |-> parse_f64(self.purchase_price_input).val])

\* The result of a call that writes the document: written is Some(doc) when
\* std::fs::write has replaced the file, None when the file is as before.
Kept(err) == [res |-> Err(err), written |-> None]
Wrote(doc, writable) ==
    IF writable THEN [res |-> Ok("()"), written |-> Some(doc)]
    ELSE Kept("Failed to write to file")

\* tui.rs:889-899 and 976-983: the price is persisted only if it is > 0.
PersistedPrice(price) == IF price > 0 THEN Some(price) ELSE None

\* tui.rs:905-912 and 985-992: Amount becomes the sum of the quantities.
WithAmount(position) ==
    [position EXCEPT !.amount = SumQuantity(position.purchases, Len(position.purchases))]

\* Mutant: the document is written in the order of the display.
save_purchase_to_file_sorted(self, positions_str, date, quantity, price, writable) ==
    IF IsMalformed(positions_str) THEN Kept("Failed to parse original data")
    ELSE IF self.selected_position >= Len(json_values(positions_str))
    THEN Kept("Invalid position selected")
    ELSE LET original_data == json_values(positions_str)
             i == self.selected_position + 1
             lot == Purchase(Some(date), quantity, PersistedPrice(price), None)
             pushed == [original_data[i] EXCEPT !.purchases = Append(@, lot)]
         IN Wrote(Doc(sort_positions_by_value_desc(
                          [original_data EXCEPT ![i] = WithAmount(pushed)])), writable)

\* Mutant: the document is rebuilt from the positions the deserializer
\* gives.
save_purchase_to_file_typed(self, positions_str, date, quantity, price, writable) ==
    IF IsMalformed(positions_str) THEN Kept("Failed to parse original data")
    ELSE IF self.selected_position >= Len(from_string(positions_str))
    THEN Kept("Invalid position selected")
    ELSE LET original_data == from_string(positions_str)
             i == self.selected_position + 1
             lot == Purchase(Some(date), quantity, PersistedPrice(price), None)
             pushed == [original_data[i] EXCEPT !.purchases = Append(@, lot)]
         IN Wrote(Doc([original_data EXCEPT ![i] = WithAmount(pushed)]), writable)

\* App::save_purchase_to_file (tui.rs:873-928): the document of
\* positions_str with one more lot in the position at selected_position.
save_purchase_to_file(self, positions_str, date, quantity, price, writable) ==
    IF IsMalformed(positions_str) THEN Kept("Failed to parse original data")
    ELSE IF self.selected_position >= Len(json_values(positions_str))
    THEN Kept("Invalid position selected")
    ELSE LET original_data == json_values(positions_str)
             i == self.selected_position + 1
             lot == Purchase(Some(date), quantity, PersistedPrice(price), None)
             pushed == [original_data[i] EXCEPT !.purchases = Append(@, lot)]
         IN Wrote(Doc([original_data EXCEPT ![i] = WithAmount(pushed)]), writable)

\* App::save_purchase_edit_to_file (tui.rs:930-1010): the lot is chosen in
\* the purchases of the displayed position at selected_position and
\* replaced in the position of the document at the same index.  A document
\* of the model has no Purchases key for a position without lots.  The
\* subtraction of tui.rs:965 is on usize: at selected_purchase = 0 it wraps
\* to an index beyond every list where overflow is not checked.
save_purchase_edit_to_file(self, positions_str, shown, date, quantity, price, writable) ==
    IF IsMalformed(positions_str) THEN Kept("Failed to parse original data")
    ELSE IF self.selected_position >= Len(json_values(positions_str))
    THEN Kept("Invalid position selected")
    ELSE IF json_values(positions_str)[self.selected_position + 1].purchases = <<>>
    THEN Kept("No purchases found")
    ELSE IF /\ shown # None
            /\ self.selected_position < Len(shown[1])
            /\ self.selected_purchase >= 1
            /\ self.selected_purchase - 1
                   < Len(shown[1][self.selected_position + 1].purchases)
            /\ purchase_list(shown[1][self.selected_position + 1].purchases,
                             Len(shown[1][self.selected_position + 1].purchases))
                   [self.selected_purchase]
                   <= Len(json_values(positions_str)[self.selected_position + 1].purchases)
    THEN LET original_data == json_values(positions_str)
             i == self.selected_position + 1
             portfolio_purchases == shown[1][i].purchases
             original_index ==
                 purchase_list(portfolio_purchases, Len(portfolio_purchases))
                     [self.selected_purchase]
             edited == [original_data[i] EXCEPT
                           !.purchases[original_index].date = Some(date),
                           !.purchases[original_index].quantity = quantity,
                           !.purchases[original_index].price = PersistedPrice(price)]
         IN Wrote(Doc([original_data EXCEPT ![i] = WithAmount(edited)]), writable)
    ELSE Kept("Could not find purchase to edit")

\* What a save returns: the Result, the App after it and the write.
Saved(self, validated, out) ==
    IF ~validated.ok THEN [res |-> validated, self |-> self, written |-> None]
    ELSE IF ~out.res.ok THEN [res |-> out.res, self |-> self, written |-> None]
    ELSE [res |-> out.res, self |-> exit_edit_mode(self), written |-> out.written]

\* App::save_new_purchase (tui.rs:837-869)
save_new_purchase(self, positions_str, writable) ==
    LET v == Validated(self)
    IN Saved(self, v,
             IF v.ok
             THEN save_purchase_to_file(self, positions_str, self.purchase_date_input,
                                        v.val.quantity, v.val.price, writable)
             ELSE Kept(""))

\* App::save_edited_purchase (tui.rs:803-835)
save_edited_purchase(self, positions_str, shown, writable) ==
    LET v == Validated(self)
    IN Saved(self, v,
             IF v.ok
             THEN save_purchase_edit_to_file(self, positions_str, shown,
                                             self.purchase_date_input,
                                             v.val.quantity, v.val.price, writable)
             ELSE Kept(""))

notForm == <<cacheVars, cycleVars, histVars, tuiVars, logVars, sideVars, callVars, raceVars>>

\* tui.rs:1115-1129: run_app reads a key in the given mode; it does not
\* while it awaits a refresh.
Pressed(modes) ==
    /\ form # None
    /\ receiver_open
    /\ side["ui"].pc = "waiting"
    /\ form[1].mode \in modes

\* The handler of the key changes fields of the App only.
Handled(self) == form' = Some(self) /\ UNCHANGED <<notForm, data_file>>

FormModes == {"AddPurchase", "EditPurchase"}

\* tui.rs:1135-1140 and 1175-1179: the keys h, l, BackTab, 1 and 2 in Normal
\* mode.
KeyTab(tab) ==
    /\ Pressed({"Normal"})
    /\ Handled([form[1] EXCEPT !.current_tab = tab])

\* tui.rs:1141-1150: j and k in Normal mode act on the Balances tab only.
KeyNextPosition ==
    /\ Pressed({"Normal"})
    /\ form[1].current_tab = "Balances"
    /\ Handled(select_next(form[1], app.portfolio))

KeyPreviousPosition ==
    /\ Pressed({"Normal"})
    /\ form[1].current_tab = "Balances"
    /\ Handled(select_previous(form[1]))

\* tui.rs:1151-1155: e in Normal mode, on the Balances tab only.
KeyEdit ==
    /\ Pressed({"Normal"})
    /\ form[1].current_tab = "Balances"
    /\ Handled(enter_edit_mode(form[1], app.portfolio))

\* tui.rs:1156-1164: r in Normal mode reads the data file.
KeyRefresh ==
    /\ Pressed({"Normal"})
    /\ ManualRefresh({data_file})

\* tui.rs:1131-1133: q or Esc in Normal mode.
KeyQuit ==
    /\ Pressed({"Normal"})
    /\ Quit

\* tui.rs:1185-1187: Esc in the purchase list.
ListEsc ==
    /\ Pressed({"PurchaseList"})
    /\ Handled(exit_edit_mode(form[1]))

\* tui.rs:1188-1193: j and k in the purchase list.
ListNext ==
    /\ Pressed({"PurchaseList"})
    /\ Handled(select_next_purchase(form[1], app.portfolio))

ListPrevious ==
    /\ Pressed({"PurchaseList"})
    /\ Handled(select_previous_purchase(form[1]))

\* tui.rs:1194-1202: a or Enter in the purchase list.
ListEnter ==
    /\ Pressed({"PurchaseList"})
    /\ Handled(IF form[1].selected_purchase = 0
               THEN enter_add_purchase_mode(form[1])
               ELSE enter_edit_purchase_mode(form[1], app.portfolio, app_positions_str[1]))

\* tui.rs:1208-1213 and 1280-1285: Esc in a purchase form.
FormEsc ==
    /\ Pressed(FormModes)
    /\ Handled([form[1] EXCEPT !.mode = "PurchaseList", !.purchase_date_input = "",
                               !.purchase_quantity_input = "", !.purchase_price_input = ""])

\* tui.rs:1214-1219 and 1286-1291: Tab, Down and Up in a purchase form.
FormNextField ==
    /\ Pressed(FormModes)
    /\ Handled(next_edit_field(form[1]))

FormPreviousField ==
    /\ Pressed(FormModes)
    /\ Handled(previous_edit_field(form[1]))

\* tui.rs:1245-1247 and 1317-1319: Backspace in a purchase form.
FormBackspace ==
    /\ Pressed(FormModes)
    /\ Handled(set_current_input(form[1], pop(get_current_input(form[1]))))

\* tui.rs:1248-1276 and 1320-1348: what the character c makes of the
\* current input.
Typed(self, c) ==
    LET current == get_current_input(self)
    IN IF self.edit_field = "Date"
       THEN IF is_ascii_digit(c) /\ digit_count(current) < 8
            THEN IF Len(current \o c) \in {4, 7} THEN current \o c \o "-" ELSE current \o c
            ELSE current
       ELSE IF is_ascii_digit(c) \/ (c = "." /\ ~contains(current, "."))
            THEN current \o c
            ELSE current

FormChar(c) ==
    /\ Pressed(FormModes)
    /\ Len(get_current_input(form[1])) < MaxTyped
    /\ Handled(set_current_input(form[1], Typed(form[1], c)))

\* tui.rs:1220-1244 and 1292-1316: Enter in a purchase form.  After a save
\* the file is read into positions_str and create_live_portfolio starts on
\* it, awaited by run_app as in the manual refresh; an error is kept in
\* error_message.
FormEnter ==
    /\ Pressed(FormModes)
    /\ form[1].saves < MaxSaves
    /\ \E writable \in BOOLEAN :
          LET out == IF form[1].mode = "AddPurchase"
                     THEN save_new_purchase(form[1], app_positions_str[1], writable)
                     ELSE save_edited_purchase(form[1], app_positions_str[1],
                                               app.portfolio, writable)
              counted == [out.self EXCEPT !.saves = @ + 1]
              file == IF out.written = None THEN data_file ELSE out.written
              str == positions_str_current(file, app_positions_str[1])
          IN IF out.res.ok
             THEN /\ form' = Some(counted)
                  /\ data_file' = file
                  /\ app_positions_str' = Some(str)
                  /\ side' = [side EXCEPT !["ui"] = Spawned("ui", str)]
             ELSE /\ form' = Some([counted EXCEPT !.error_message = Some(out.res.err)])
                  /\ UNCHANGED <<data_file, app_positions_str, side>>
    /\ UNCHANGED <<cacheVars, cycleVars, histVars, tuiVars, logVars, callVars, raceVars,
                   weekly, historic_channel, historic_data>>

----------------------------------------------------------------------------
(* Specification SpecEdit: the user moves through the Balances tab, the    *)
(* purchase list and the two purchase forms, types up to MaxTyped          *)
(* characters into an input, presses Enter in a form up to MaxSaves times  *)
(* and refreshes; the data file declares a position with two lots in front *)
(* of a cash position of a larger balance.                                 *)

TwoLotsPosition ==
    Position(Some("Apple"), Some("AAPL"), "Stock", 3,
             <<Purchase(None, 1, Some(0 - 1), None), Purchase(Some("2"), 2, Some(1), None)>>)
DepositPosition == Position(Some("Deposit"), None, "Cash", 3 * MaxClose + 1, <<>>)
\* The object of the first position has a key the struct does not declare.
NotedObject ==
    [name |-> TwoLotsPosition.name, ticker |-> TwoLotsPosition.ticker,
     asset_class |-> TwoLotsPosition.asset_class, amount |-> TwoLotsPosition.amount,
     last_spot |-> 0, purchases |-> TwoLotsPosition.purchases, previous_close |-> None,
     note |-> "long term"]
EditInitialString == Doc(<<NotedObject, DepositPosition>>)

\* main.rs:318-322: the portfolio main has resolved, in the order of the
\* document.
EditInitialPortfolio ==
    <<[TwoLotsPosition EXCEPT !.last_spot = MaxClose, !.previous_close = Some(MaxClose)],
      DepositPosition>>

EditKeys == {"0", "2", "."}
\* The answers to the lookups of a refresh: a quote, or no connection.
EditRemotes == {RemoteOk(Consistent(<<MaxClose>>)), RemoteErr("ConnectionFailed")}
EditAges == {8}

\* tui.rs:1043-1060: the App shows the portfolio main resolved; --tab
\* chooses the first tab.
InitEdit ==
    /\ InitCaches
    /\ lookup = NoLookup
    /\ lookups = 0
    /\ NoCycle
    /\ NoCall
    /\ NoRace
    /\ InitHist
    /\ bgPc = "waiting"
    /\ portfolio_channel = <<>>
    /\ receiver_open = TRUE
    /\ published = 0
    /\ app = set_portfolio(NewApp, EditInitialPortfolio)
    /\ last_read = [got |-> 0, latest |-> 0]
    /\ side = [o \in Owners |-> NoPass("waiting", 0)]
    /\ weekly = [o \in Owners |-> NoSeries]
    /\ historic_channel = <<>>
    /\ historic_data = None
    /\ app_positions_str = Some(EditInitialString)
    /\ data_file = Some(EditInitialString)
    /\ \E tab \in Tabs : form = Some([NewForm EXCEPT !.current_tab = tab])

NextEdit ==
    \/ \E tab \in Tabs : KeyTab(tab)
    \/ KeyNextPosition
    \/ KeyPreviousPosition
    \/ KeyEdit
    \/ KeyRefresh
    \/ ListEsc
    \/ ListNext
    \/ ListPrevious
    \/ ListEnter
    \/ FormEsc
    \/ FormNextField
    \/ FormPreviousField
    \/ FormBackspace
    \/ \E c \in EditKeys : FormChar(c)
    \/ FormEnter
    \/ \E i \in 1..MaxPositions : SideLookup("ui", i, EditRemotes, SeriesSearches)
    \/ SideSeries("ui", EditAges)
    \/ ManualRefreshEnd
    \/ KeyQuit

SpecEdit == InitEdit /\ [][NextEdit]_vars

----------------------------------------------------------------------------
(* Specification SpecDate: the form of a new purchase is open on its Date  *)
(* field and the user presses digit keys, other keys and Backspace; the    *)
(* handler itself stops at eight digits.                                   *)

DateKeys == {"0", "2", "."}

\* tui.rs:1248-1266 and 1320-1338: a character key in the Date field.
DateChar(c) ==
    /\ Pressed(FormModes)
    /\ form[1].edit_field = "Date"
    /\ Handled(set_current_input(form[1], Typed(form[1], c)))

\* tui.rs:1194-1197: the form of a new purchase has just been opened.
InitDate ==
    /\ InitCaches
    /\ lookup = NoLookup
    /\ lookups = 0
    /\ NoCycle
    /\ NoCall
    /\ NoRace
    /\ InitHist
    /\ bgPc = "waiting"
    /\ portfolio_channel = <<>>
    /\ receiver_open = TRUE
    /\ published = 0
    /\ app = set_portfolio(NewApp, EditInitialPortfolio)
    /\ last_read = [got |-> 0, latest |-> 0]
    /\ side = [o \in Owners |-> NoPass("waiting", 0)]
    /\ weekly = [o \in Owners |-> NoSeries]
    /\ historic_channel = <<>>
    /\ historic_data = None
    /\ app_positions_str = Some(EditInitialString)
    /\ data_file = Some(EditInitialString)
    /\ \E selected \in 0..1 :
          form = Some(enter_add_purchase_mode(
                          [NewForm EXCEPT !.current_tab = "Balances",
                                          !.selected_position = selected,
                                          !.mode = "PurchaseList"]))

NextDate ==
    \/ \E c \in DateKeys : DateChar(c)
    \/ FormBackspace

SpecDate == InitDate /\ [][NextDate]_vars

----------------------------------------------------------------------------
(* Claims on handle_position and the refresh cycle                         *)

\* The finished tasks of ticker-backed positions.
TickerTasks ==
    {i \in 1..Len(tasks) : tasks[i].pc = "done" /\ tasks[i].pos.ticker # None}

\* C2: resolving a ticker-backed position returns an error exactly when the
\* latest price is unavailable, that is when get_quote_price returned an
\* error; a failure of the previous-close fetch, of a backfill or of the
\* name lookup never makes it return an error.
C2_ErrorIffNoPrice ==
    \A i \in TickerTasks :
        tasks[i].result.kind = "err" <=> ~tasks[i].quote[1].ok

\* C6, as stated: Connected iff no resolution failed, Disconnected iff none
\* succeeded, Partial otherwise, for every number of positions.
C6_StatusAsStated ==
    cycle = "done" =>
        /\ network_status = "Connected" <=> failed_positions = 0
        /\ network_status = "Disconnected" <=> successful_positions = 0
        /\ network_status = "Partial" <=>
              (failed_positions # 0 /\ successful_positions # 0)

\* C6, amended: Connected iff no resolution failed (so also for zero
\* positions), Disconnected iff none succeeded and at least one failed,
\* Partial iff at least one succeeded and at least one failed.
C6_Status ==
    cycle = "done" =>
        /\ network_status = "Connected" <=> failed_positions = 0
        /\ network_status = "Disconnected" <=>
              (successful_positions = 0 /\ failed_positions # 0)
        /\ network_status = "Partial" <=>
              (failed_positions # 0 /\ successful_positions # 0)

\* A cycle over a document that declares no position has returned.
C6_Witness ==
    /\ cycle = "done"
    /\ positions = <<>>
    /\ successful_positions = 0
    /\ failed_positions = 0
    /\ network_status = "Connected"

OkTasks == {i \in 1..Len(tasks) : tasks[i].result.kind = "ok"}
FailedTasks == {i \in 1..Len(tasks) : tasks[i].result.kind \in {"err", "panic"}}

\* C7: the cycle returns only after all N tasks were awaited; the portfolio
\* holds exactly the positions whose resolution returned Ok, every error
\* and every panic counts as one failure, and successes + failures = N.
C7_WaitsForAll ==
    cycle = "done" =>
        /\ Len(tasks) = Len(positions)
        /\ awaited = Len(positions)
        /\ \A i \in 1..Len(tasks) : tasks[i].pc = "done"
        /\ successful_positions = Cardinality(OkTasks)
        /\ failed_positions = Cardinality(FailedTasks)
        /\ successful_positions + failed_positions = Len(positions)
        /\ Len(portfolio) = successful_positions
        /\ Len(origin) = Len(portfolio)
        /\ {origin[j] : j \in 1..Len(origin)} = OkTasks
        /\ \A j \in 1..Len(portfolio) : portfolio[j] = tasks[origin[j]].result.pos

\* A cycle has returned in which the first task panicked and the second,
\* a ticker-backed position, was still awaited and added.
C7_Witness ==
    /\ cycle = "done"
    /\ Len(tasks) >= 2
    /\ tasks[1].result.kind = "panic"
    /\ tasks[2].result.kind = "ok"
    /\ tasks[2].pos.ticker # None
    /\ portfolio = <<tasks[2].result.pos>>
    /\ failed_positions = 1

\* C8: the positions of the portfolio are in the order of the declared
\* positions, whatever order the tasks finished in.
C8_DeclaredOrder ==
    /\ \A j, k \in 1..Len(origin) : j < k => origin[j] < origin[k]
    /\ \A j \in 1..Len(origin) :
          /\ portfolio[j].ticker = positions[origin[j]].ticker
          /\ portfolio[j].asset_class = positions[origin[j]].asset_class
          /\ portfolio[j].amount = positions[origin[j]].amount

\* The tasks finished in the reverse of the declared order and both
\* positions are in the portfolio.
C8_Witness ==
    /\ cycle = "done"
    /\ Len(completed) >= 2
    /\ completed[1] > completed[2]
    /\ origin = <<completed[2], completed[1]>>
    /\ portfolio[1] # portfolio[2]

----------------------------------------------------------------------------
(* Claims on the historic aggregation                                      *)

\* A fetch result that records a warning: any failure but a Bad Request,
\* and a response that has no last quote.
RecordsWarning(r) ==
    \/ r.ok /\ r.val.last_quote = None
    \/ ~r.ok /\ r.err # "BadRequest"

Warned == {i \in 1..Len(histResults) : RecordsWarning(histResults[i][1])}

\* C3: the aggregation returns Err with the recorded warnings exactly when
\* the sum is <= 0 and at least one warning was recorded, and Ok(sum)
\* otherwise; a Bad Request records no warning, every other failure and
\* every response without a last quote records exactly one.
C3_ErrIffNonPositiveAndWarned ==
    histPc = "done" =>
        /\ (histSum <= 0 /\ histErrors # <<>>) => histReturn = Err(histErrors)
        /\ ~(histSum <= 0 /\ histErrors # <<>>) => histReturn = Ok(histSum)
        /\ Len(histErrors) = Cardinality(Warned)
        /\ \A j \in 1..Len(histErrors) :
              \E i \in Warned :
                  histErrors[j].label = positions_with_ticker(histPositions)[i].label

\* An aggregation over two tickers ended in Err with one warning: one fetch
\* failed with a Bad Request, the other with a connection failure.
C3_Witness ==
    /\ histPc = "done"
    /\ Len(histResults) = 2
    /\ ~histResults[1][1].ok /\ histResults[1][1].err = "BadRequest"
    /\ ~histResults[2][1].ok /\ histResults[2][1].err = "ConnectionFailed"
    /\ Len(histErrors) = 1
    /\ histSum <= 0
    /\ histReturn = Err(histErrors)

\* The case of C4: at least one ticker-backed position, every fetch
\* returned an error, and the cash sums to 0.
AllFetchesFailed ==
    /\ histPc = "done"
    /\ Len(histResults) >= 1
    /\ \A i \in 1..Len(histResults) : ~histResults[i][1].ok
    /\ cash_sum(histPositions, Len(histPositions)) = 0

\* C4, as stated: when every fetch fails and the cash sums to 0 the
\* aggregation returns an error, whatever the class of the failures.
C4_AllFailedIsError ==
    AllFetchesFailed => ~histReturn.ok

\* C4, amended: when every fetch fails and the cash sums to 0 the
\* aggregation returns an error if at least one failure is not a Bad
\* Request, and Ok(0) if every failure is a Bad Request.
C4_AllFailedIsErrorUnlessBadRequests ==
    AllFetchesFailed =>
        IF \E i \in 1..Len(histResults) : histResults[i][1].err # "BadRequest"
        THEN ~histReturn.ok
        ELSE histReturn = Ok(0)

\* Every fetch of a portfolio of two tickers and no cash failed, one of
\* them not with a Bad Request, and the aggregation returned an error.
C4_Witness ==
    /\ AllFetchesFailed
    /\ Len(histResults) = 2
    /\ Len(histPositions) = 2
    /\ histResults[1][1].err = "ConnectionFailed"
    /\ histResults[2][1].err = "BadRequest"
    /\ ~histReturn.ok

\* The number of ticker-backed positions among the first k positions.
TickerRank(ps, k) == Cardinality({j \in 1..k : ps[j].ticker # None})

\* The sum of close times effective quantity over the first k positions
\* whose fetch succeeded with a last quote, plus their cash for "total".
RECURSIVE ExpectedValue(_, _, _, _)
ExpectedValue(ps, results, variant, k) ==
    IF k = 0 THEN 0
    ELSE ExpectedValue(ps, results, variant, k - 1)
         + (IF ps[k].ticker # None
            THEN LET r == results[TickerRank(ps, k)][1]
                 IN IF r.ok /\ r.val.last_quote # None
                    THEN r.val.last_quote[1] * get_amount(ps[k])
                    ELSE 0
            ELSE IF variant = "total" THEN get_amount(ps[k]) ELSE 0)

----------------------------------------------------------------------------
(* Claims on the background refresh task and its channel                   *)

\* C9: the portfolio channel holds at most one unread result and the
\* latest wins: a message received by try_receive_portfolio_update is the
\* most recently published one.
C9_LatestWins ==
    /\ Len(portfolio_channel) <= 1
    /\ last_read.got = last_read.latest

\* C10: the background refresh task ends only when the receiving side of
\* its channel is closed; a tick that reads malformed or unreadable
\* content does not end it.
C10_EndsOnlyWhenReceiverClosed ==
    bgPc \in {"exited", "panicked"} => ~receiver_open

----------------------------------------------------------------------------
(* Claims on repeated resolution                                           *)

\* The caches cs = <<quotes, previous closes, historic, names>> hold an
\* entry for every lookup the resolution of the positions ps makes.
Warmed(ps, cs) ==
    \A i \in 1..Len(ps) :
        ps[i].ticker # None =>
            LET t == ps[i].ticker[1]
                lots == ps[i].purchases
            IN /\ t \in DOMAIN cs[1]
               /\ t \in DOMAIN cs[2]
               /\ ps[i].name = None => t \in DOMAIN cs[4]
               /\ \A j \in 1..Len(lots) :
                     (NeedsFetch(lots[j])
                      /\ InTimeRange(parse_purchase_date(lots[j].date[1])[1]))
                     => <<t, parse_purchase_date(lots[j].date[1])[1]>> \in DOMAIN cs[3]

\* C16: two calls on the same document with the provider unreachable and
\* the caches warmed by an earlier call return the same positions with the
\* same values in every field, so the same balances, and neither call
\* changes a cache.
C16_WarmRoundTrip ==
    \A j \in 2..(Len(passLog) - 1) :
        (passLog[j].returned /\ passLog[j + 1].returned
         /\ Warmed(positions, passLog[j].before))
        => /\ passLog[j + 1].portfolio = passLog[j].portfolio
           /\ passLog[j].after = passLog[j].before
           /\ passLog[j + 1].before = passLog[j].after
           /\ passLog[j + 1].after = passLog[j + 1].before

\* Three calls on a document with a ticker-backed position have returned;
\* the first warmed the caches and each of the two others, made with the
\* provider unreachable, returned the position with a price.
C16_Witness ==
    /\ Len(passLog) = MaxCycles + 1
    /\ \A j \in 1..Len(passLog) : passLog[j].returned
    /\ Warmed(positions, passLog[2].before)
    /\ passLog[2].portfolio # <<>>
    /\ passLog[2].portfolio[1].ticker # None
    /\ passLog[2].portfolio[1].last_spot > 0
    /\ passLog[3].portfolio = passLog[2].portfolio

----------------------------------------------------------------------------
(* Claims on the resolution of one position                                *)

\* C17: the resolution of a position without ticker is one step that
\* makes no lookup and leaves every cache as it is; it returns Ok with a
\* position equal to the declared one in every field, whose balance is the
\* declared amount.
C17_CashUntouched ==
    [][\A i \in 1..Len(tasks) :
          (/\ cycle = "resolving" /\ cycle' = "resolving"
           /\ tasks[i].pos.ticker = None
           /\ tasks'[i] # tasks[i])
          => /\ caches' = caches
             /\ lookup' = lookup
             /\ tasks'[i].pc = "done"
             /\ tasks'[i].result = TaskOk(positions[i])
             /\ get_balance(tasks'[i].result.pos) = positions[i].amount]_vars

\* A cash position that lists a purchase was resolved while the quote
\* cache held a response.
C17_Witness ==
    /\ cycle = "done"
    /\ Len(tasks) = 1
    /\ positions[1].ticker = None
    /\ positions[1].purchases # <<>>
    /\ portfolio = positions
    /\ DOMAIN QUOTE_CACHE # {}

\* C18: when the resolution of a ticker-backed position returns Ok, its
\* last_spot is the close of the last quote of the response get_quote_price
\* gave, or, when that response has no last quote, the close of the last
\* element of its quote list.
C18_SpotFromQuote ==
    \A i \in TickerTasks :
        tasks[i].result.kind = "ok" =>
            LET resp == tasks[i].quote[1].val
            IN IF resp.last_quote # None
               THEN tasks[i].result.pos.last_spot = resp.last_quote[1]
               ELSE /\ resp.quotes_ok
                    /\ resp.quotes # <<>>
                    /\ tasks[i].result.pos.last_spot = resp.quotes[Len(resp.quotes)]

\* The tasks whose previous-close query has been answered.
Queried == {i \in 1..Len(tasks) : tasks[i].window # None}

Resolved == {i \in TickerTasks : tasks[i].result.kind = "ok"}

\* The most recent close of a historic response, None when it has none.
RecentClose(resp) ==
    IF resp.last_quote # None THEN resp.last_quote
    ELSE IF resp.quotes_ok /\ resp.quotes # <<>> THEN Some(resp.quotes[Len(resp.quotes)])
    ELSE None

\* Lot j of task i after the resolution: date, quantity and fees as
\* declared, and the price filled from the lookup made for it when fill is
\* true, the declared price when not.
LotAfter(i, j, fill) ==
    LET old == positions[i].purchases[j]
        new == tasks[i].result.pos.purchases[j]
    IN /\ new.date = old.date
       /\ new.quantity = old.quantity
       /\ new.fees = old.fees
       /\ IF fill
          THEN /\ j \in DOMAIN tasks[i].fetched
               /\ IF tasks[i].fetched[j].ok /\ RecentClose(tasks[i].fetched[j].val) # None
                  THEN /\ new.price # None
                       /\ new.price[1] >= 0
                       /\ new.price[1] >= RecentClose(tasks[i].fetched[j].val)[1]
                       /\ new.price[1] \in {0, RecentClose(tasks[i].fetched[j].val)[1]}
                  ELSE new.price = old.price
          ELSE /\ j \notin DOMAIN tasks[i].fetched
               /\ new.price = old.price

\* C20, as stated: a historic lookup is made for every lot without a price
\* > 0 whose date parses, and fills the price with the most recent close,
\* clamped to >= 0, when it succeeds; every other lot keeps its price; the
\* number and order of the lots is unchanged.
C20_BackfillAsStated ==
    \A i \in Resolved :
        LET old == positions[i].purchases
        IN /\ Len(tasks[i].result.pos.purchases) = Len(old)
           /\ \A j \in 1..Len(old) : LotAfter(i, j, Unpriced(old[j]) /\ Dated(old[j]))

\* C20, amended: the lookup is made, and the price filled, for the lots
\* without a price > 0 whose date parses and whose quantity is > 0; every
\* other lot keeps its price; the number and order of the lots is
\* unchanged.
C20_Backfill ==
    \A i \in Resolved :
        LET old == positions[i].purchases
        IN /\ Len(tasks[i].result.pos.purchases) = Len(old)
           /\ \A j \in 1..Len(old) :
                 LotAfter(i, j, Unpriced(old[j]) /\ Dated(old[j]) /\ old[j].quantity > 0)

\* A resolution has returned a lot filled from a negative close, clamped
\* to 0, next to a lot without quantity that was left without a price.
C20_Witness ==
    /\ Resolved = {1}
    /\ Len(positions[1].purchases) = 2
    /\ positions[1].purchases[1].quantity = 0
    /\ tasks[1].result.pos.purchases[1].price = None
    /\ 2 \in DOMAIN tasks[1].fetched
    /\ tasks[1].fetched[2].ok
    /\ RecentClose(tasks[1].fetched[2].val) # None
    /\ RecentClose(tasks[1].fetched[2].val)[1] < 0
    /\ tasks[1].result.pos.purchases[2].price = Some(0)

----------------------------------------------------------------------------
(* Claims on the passes of run_tui and on the weekly series                *)

\* C11: at no time are two position-refresh passes in progress at once
\* against the shared caches: while the background refresh task is inside
\* create_live_portfolio the manual refresh of run_app is not, and the
\* other way round.
C11_OnePassAtATime == ~(cycle = "resolving" /\ side["ui"].pc = "resolving")

\* C12: a weekly-series computation in which the fetch of a ticker ran
\* into its timeout still returns a series, and the historic task that
\* called it goes on to publish: neither is ended by a panic.
C12_CompletesDespiteTimeout ==
    (\E i \in 1..Len(weekly["historic"].fetches) :
        weekly["historic"].fetches[i] = TimedOut)
    => /\ weekly["historic"].pc # "panicked"
       /\ side["historic"].pc # "panicked"

----------------------------------------------------------------------------
(* Claims on the accessors of a position                                   *)

\* The accessor fn has been called, on the position `subject`.
Returned(fn) == result # None /\ result[1].fn = fn

\* The effective quantity the claims speak of.
EffectiveQuantity(p) ==
    IF Len(p.purchases) >= 1 THEN SumQuantity(p.purchases, Len(p.purchases)) ELSE p.amount

\* C21: for every ticker-backed position the balance is last_spot times the
\* effective quantity, and the effective quantity (get_amount) is the sum
\* of the lot quantities when the position has at least one lot and the
\* declared amount otherwise.
C21_BalanceIsSpotTimesQuantity ==
    /\ Returned("get_balance") /\ subject[1].ticker # None
       => result[1].val = subject[1].last_spot * EffectiveQuantity(subject[1])
    /\ Returned("get_amount") => result[1].val = EffectiveQuantity(subject[1])

\* A ticker-backed position with two lots whose quantities do not add up to
\* the declared amount has been valued.
C21_Witness ==
    /\ Returned("get_balance")
    /\ subject[1].ticker # None
    /\ Len(subject[1].purchases) = 2
    /\ EffectiveQuantity(subject[1]) # subject[1].amount
    /\ result[1].val = subject[1].last_spot * 4

\* The lots with a known price > 0, and their sums.
KnownLots(p) == SelectSeq(p.purchases, LAMBDA lot : lot.price # None /\ lot.price[1] > 0)

RECURSIVE CostOf(_)
CostOf(lots) ==
    IF lots = <<>> THEN 0
    ELSE Head(lots).quantity * Head(lots).price[1]
         + (IF Head(lots).fees = None THEN 0 ELSE Head(lots).fees[1])
         + CostOf(Tail(lots))

RECURSIVE QuantityOf(_)
QuantityOf(lots) == IF lots = <<>> THEN 0 ELSE Head(lots).quantity + QuantityOf(Tail(lots))

\* C22, as stated: average_cost is None when no lot has a known price > 0,
\* and otherwise it is the cost of those lots divided by their quantity.
C22_AverageCostAsStated ==
    Returned("average_cost") =>
        LET known == KnownLots(subject[1])
        IN IF known = <<>> THEN result[1].val = None
           ELSE /\ result[1].val # None
                /\ SameRatio(result[1].val[1], Ratio(CostOf(known), QuantityOf(known)))

\* C22, amended: average_cost is None when no lot has a known price > 0 or
\* when the quantities of those lots do not add up to more than 0, and
\* otherwise it is the sum of quantity * price + fees divided by the sum of
\* quantity, both over exactly the lots with a known price > 0, missing
\* fees counting as 0; the lots without a price do not enter the result.
C22_AverageCost ==
    Returned("average_cost") =>
        LET known == KnownLots(subject[1])
        IN IF known = <<>> \/ QuantityOf(known) <= 0 THEN result[1].val = None
           ELSE /\ result[1].val # None
                /\ result[1].val[1].den > 0
                /\ SameRatio(result[1].val[1], Ratio(CostOf(known), QuantityOf(known)))

\* The average cost of a position with a lot without a price and a lot
\* with a price and fees has been computed.
C22_Witness ==
    /\ Returned("average_cost")
    /\ Len(subject[1].purchases) = 2
    /\ subject[1].purchases[1].price = None
    /\ subject[1].purchases[1].quantity = 2
    /\ subject[1].purchases[2] = Purchase(None, 2, Some(2), Some(1))
    /\ result[1].val = Some(Ratio(5, 2))

\* The balance the claims speak of: the declared amount of a position
\* without ticker, last_spot times the effective quantity otherwise.
Balance(p) ==
    IF p.ticker = None THEN p.amount ELSE p.last_spot * EffectiveQuantity(p)

\* What the three accessors of C23 return when `invested` is the value of
\* total_invested, None when it is not defined.
InvestedAccessorsAgree(invested) ==
    /\ Returned("total_invested") => result[1].val = invested
    /\ Returned("pnl") =>
           result[1].val =
               IF invested = None THEN None ELSE Some(Balance(subject[1]) - invested[1])
    /\ Returned("historic_variation_percent") =>
           IF invested = None THEN result[1].val = None
           ELSE /\ result[1].val # None
                /\ SameRatio(result[1].val[1],
                             Ratio((Balance(subject[1]) - invested[1]) * 100, invested[1]))

\* C23, as stated: total_invested is defined exactly when at least one lot
\* has a known price > 0 and is then the cost of those lots; pnl and
\* historic_variation_percent are defined exactly when it is.
C23_InvestedAsStated ==
    result # None =>
        LET known == KnownLots(subject[1])
        IN InvestedAccessorsAgree(IF known = <<>> THEN None ELSE Some(CostOf(known)))

\* C23, amended: total_invested is defined exactly when the sum of
\* quantity * price + fees over the lots with a known price > 0 is more
\* than 0, and is then that sum; pnl and historic_variation_percent are
\* defined exactly when total_invested is, with pnl = balance -
\* total_invested and historic_variation_percent = pnl / total_invested *
\* 100.
C23_Invested ==
    result # None =>
        LET known == KnownLots(subject[1])
        IN InvestedAccessorsAgree(IF CostOf(known) > 0 THEN Some(CostOf(known)) ELSE None)

\* The variation of a ticker-backed position with a lot bought with fees
\* has been computed.
C23_Witness ==
    /\ Returned("historic_variation_percent")
    /\ subject[1].ticker # None
    /\ subject[1].last_spot = 2
    /\ subject[1].purchases = <<Purchase(None, 2, Some(1), Some(1))>>
    /\ result[1].val = Some(Ratio(100, 3))

----------------------------------------------------------------------------
(* Claims on the allocation                                                *)

\* The asset classes of the positions, and the balance held in one.
ClassesOf(ps) == {ps[i].asset_class : i \in 1..Len(ps)}

RECURSIVE ClassBalance(_, _)
ClassBalance(ps, c) ==
    IF ps = <<>> THEN 0
    ELSE (IF Head(ps).asset_class = c THEN Balance(Head(ps)) ELSE 0)
         + ClassBalance(Tail(ps), c)

RECURSIVE SumOfEntries(_, _)
SumOfEntries(allocation, classes) ==
    IF classes = {} THEN Ratio(0, 1)
    ELSE LET c == CHOOSE x \in classes : TRUE
         IN AddRatio(allocation[c], SumOfEntries(allocation, classes \ {c}))

RECURSIVE TotalBalance(_)
TotalBalance(ps) == IF ps = <<>> THEN 0 ELSE Balance(Head(ps)) + TotalBalance(Tail(ps))

\* C24: for every non-empty portfolio whose total value is not 0,
\* get_allocation returns one entry per distinct asset-class string, each
\* the sum over the positions of that class of balance / total value *
\* 100, and the entries sum to 100.
C24_Allocation ==
    Returned("get_allocation") /\ subject[1] # <<>> /\ TotalBalance(subject[1]) # 0
    => LET ps == subject[1]
           allocation == result[1].val
       IN /\ DOMAIN allocation = ClassesOf(ps)
          /\ \A c \in ClassesOf(ps) :
                 /\ allocation[c].den # 0
                 /\ SameRatio(allocation[c],
                              Ratio(ClassBalance(ps, c) * 100, TotalBalance(ps)))
          /\ SameRatio(SumOfEntries(allocation, DOMAIN allocation), Ratio(100, 1))

\* The allocation of a portfolio of two positions of the same asset class
\* has been computed.
C24_Witness ==
    /\ Returned("get_allocation")
    /\ Len(subject[1]) = 2
    /\ subject[1][1].asset_class = "Stock"
    /\ subject[1][2].asset_class = "Stock"
    /\ Balance(subject[1][1]) = 1
    /\ Balance(subject[1][2]) = 2
    /\ DOMAIN result[1].val = {"Stock"}
    /\ SameRatio(result[1].val["Stock"], Ratio(100, 1))

----------------------------------------------------------------------------
(* Claims on the weekly series, the data file and the purchase forms       *)

\* The number of points the claim gives a series whose earliest purchase
\* is `age` days old.
ClaimedPoints(age) ==
    IF (age \div 7) + 1 < max_weeks THEN (age \div 7) + 1 ELSE max_weeks

\* C25: the series returned by compute_weekly_series_batch is empty when no
\* purchase has a date that parses, and otherwise has exactly
\* min(floor(days since the earliest purchase date / 7) + 1, 78) points
\* whose week indices are 0, 1, 2, ... in increasing order; it never has
\* more than 78 points.
C25_SeriesLength ==
    \A o \in Owners :
        weekly[o].pc = "returned" =>
            LET series == weekly[o].series
            IN /\ Len(series) <= max_weeks
               /\ \A i \in 1..Len(series) : series[i].x = i - 1
               /\ IF weekly[o].age = None THEN series = <<>>
                  ELSE Len(series) = ClaimedPoints(weekly[o].age[1])

\* A call of save_new_purchase or save_edited_purchase has returned.
SaveCalled == form # None /\ form' # None /\ form'[1].saves = form[1].saves + 1

\* The two documents declare the same positions in the same order.
SameOrder(d, e) ==
    /\ Len(d.positions) = Len(e.positions)
    /\ \A i \in 1..Len(d.positions) :
          /\ d.positions[i].name = e.positions[i].name
          /\ d.positions[i].ticker = e.positions[i].ticker
          /\ d.positions[i].asset_class = e.positions[i].asset_class

\* The positions of the one list, counted with their multiplicity, are
\* those of the other.
SamePositions(ps, qs) ==
    /\ Len(ps) = Len(qs)
    /\ \A p \in {ps[i] : i \in 1..Len(ps)} \cup {qs[i] : i \in 1..Len(qs)} :
          Cardinality({i \in 1..Len(ps) : ps[i] = p})
              = Cardinality({i \in 1..Len(qs) : qs[i] = p})

\* C26: whenever the data file is written, its positions are in the order
\* of the document the edit was applied to (App.positions_str), all but
\* one of them as they were; a step that changes the displayed portfolio
\* leaves the file as it is; and the sorted portfolio of a refresh holds
\* exactly the positions create_live_portfolio returned, none added,
\* dropped or altered.
C26_FileOrderKept ==
    [][/\ data_file' # data_file =>
             /\ data_file' # None
             /\ SameOrder(data_file'[1], app_positions_str[1])
             /\ Cardinality({i \in 1..Len(app_positions_str[1].positions) :
                                data_file'[1].positions[i]
                                    # app_positions_str[1].positions[i]}) <= 1
       /\ app'.portfolio # app.portfolio => data_file' = data_file
       /\ (side["ui"].pc = "resolving" /\ side'["ui"].pc = "series") =>
             SamePositions(side'["ui"].portfolio,
                           Collected(side["ui"].tasks, Len(side["ui"].tasks)).portfolio)]_vars

\* A purchase has been saved and the refresh after it is over: the display
\* has the deposit in front, the file the position with the lots.
C26_Witness ==
    /\ form # None
    /\ form[1].saves = 1
    /\ side["ui"].pc = "waiting"
    /\ data_file # Some(EditInitialString)
    /\ data_file[1].positions[1].name = Some("Apple")
    /\ app.portfolio[1][1].name = Some("Deposit")

\* The inputs the claim calls invalid: the date empty, the quantity empty,
\* not a number or <= 0, the price given and not a number or negative.
InvalidInput(self) ==
    \/ self.purchase_date_input = ""
    \/ self.purchase_quantity_input = ""
    \/ ~parse_f64(self.purchase_quantity_input).ok
    \/ parse_f64(self.purchase_quantity_input).val <= 0
    \/ /\ self.purchase_price_input # ""
       /\ \/ ~parse_f64(self.purchase_price_input).ok
          \/ parse_f64(self.purchase_price_input).val < 0

ValidationMessages ==
    {"Date is required", "Quantity is required", "Invalid quantity format",
     "Quantity must be positive", "Invalid price format", "Price cannot be negative"}

\* C27: when save_new_purchase or save_edited_purchase is called on an
\* invalid input, it returns a validation error, which the handler keeps
\* in error_message; the data file is not written, no refresh starts, and
\* the mode and the three inputs are as before.
C27_InvalidInputRejected ==
    [][(SaveCalled /\ InvalidInput(form[1])) =>
          /\ form'[1].error_message # None
          /\ form'[1].error_message[1] \in ValidationMessages
          /\ data_file' = data_file
          /\ app_positions_str' = app_positions_str
          /\ side' = side
          /\ form'[1].mode = form[1].mode
          /\ form'[1].purchase_date_input = form[1].purchase_date_input
          /\ form'[1].purchase_quantity_input = form[1].purchase_quantity_input
          /\ form'[1].purchase_price_input = form[1].purchase_price_input]_vars

\* The edit of the lot whose price is -1 in the file has been rejected for
\* its price.
C27_Witness ==
    /\ form # None
    /\ form[1].saves = 1
    /\ data_file = Some(EditInitialString)
    /\ form[1].mode = "EditPurchase"
    /\ form[1].purchase_price_input = "-1"
    /\ form[1].error_message = Some("Price cannot be negative")

----------------------------------------------------------------------------
(* Claims on the parsers of the command line                               *)

\* C28: parse_tab always returns a tab and never None: Overview or Balances
\* when the argument is that name in any letter case, and Overview for
\* every other input, a missing argument and the empty string included.
C28_ParseTabDefaults ==
    Returned("parse_tab") =>
        /\ result[1].val # None
        /\ result[1].val[1] \in Tabs
        /\ result[1].val[1] =
               IF subject[1].input.of # None THEN subject[1].input.of[1] ELSE "Overview"

\* The tab has been parsed from the empty string, and got Overview.
C28_Witness ==
    /\ Returned("parse_tab")
    /\ subject[1].input.arg = Some("")
    /\ result[1].val = Some("Overview")

\* The listed items that are no name of a component.
UnknownItems(items) == SelectSeq(items, LAMBDA it : it.of = None)

----------------------------------------------------------------------------
(* Claims on concurrent lookups                                            *)

\* C30: when two resolutions look up the same key concurrently and both
\* remote calls succeed, each lookup returns the response that its own
\* remote call fetched, never the one stored by the other task, and the
\* read-back of the key just inserted never finds the key missing.
C30_OwnResponse ==
    racers # <<>> /\ racers[1].key = racers[2].key
    => \A i \in Racers :
           /\ racers[i].pc # "panicked"
           /\ racers[i].pc = "done" /\ racers[i].fetched # None
              => racers[i].returned = Some(Ok(racers[i].fetched[1]))

----------------------------------------------------------------------------
(* Claims on the purchase editor of the TUI                                *)

\* The two positions are the same holding: the same name and ticker.
SameHolding(p, q) == p.name = q.name /\ p.ticker = q.ticker

\* C31: whenever a save writes the data file, every position of the file
\* that it has changed is the holding the display shows at
\* selected_position.
C31_SavedToSelectedPosition ==
    [][(SaveCalled /\ data_file' # data_file) =>
          \A i \in 1..Len(data_file'[1].positions) :
             data_file'[1].positions[i] # app_positions_str[1].positions[i] =>
                SameHolding(data_file'[1].positions[i],
                            app.portfolio[1][form[1].selected_position + 1])]_vars

\* C32: whenever the displayed portfolio is non-empty, selected_position
\* is an index into it.
C32_SelectionInRange ==
    (form # None /\ app.portfolio # None /\ app.portfolio[1] # <<>>) =>
        form[1].selected_position < Len(app.portfolio[1])

\* C33: in the mode EditPurchase selected_purchase is at least 1, so that
\* selected_purchase - 1 is an index of the list of lots.
C33_EditHasSelectedPurchase ==
    (form # None /\ form[1].mode = "EditPurchase") => form[1].selected_purchase >= 1

\* The form of an edit is open on the second row of the list and a save
\* of it has been rejected.
C33_Witness ==
    /\ form # None
    /\ form[1].mode = "EditPurchase"
    /\ form[1].selected_purchase = 2
    /\ form[1].saves = 1

\* The three purchase inputs are empty.
InputsCleared(self) ==
    /\ self.purchase_date_input = ""
    /\ self.purchase_quantity_input = ""
    /\ self.purchase_price_input = ""

\* The step is a save that has returned Ok: the refresh after it starts.
SaveSucceeded == SaveCalled /\ side["ui"].pc = "waiting" /\ side'["ui"].pc = "resolving"

\* C34: a purchase form is entered from PurchaseList only; PurchaseList is
\* entered from Normal only on the Balances tab with selected_position an
\* index of the display, and otherwise from a form; Esc in a form leads to
\* PurchaseList and Esc in PurchaseList to Normal, with the three inputs
\* empty; a form is left for Normal only by a successful save, and a
\* successful save leads to Normal with the three inputs empty.
C34_ModeTransitions ==
    [][form # None =>
          /\ form' # None
          /\ (form'[1].mode \in FormModes /\ form'[1].mode # form[1].mode) =>
                form[1].mode = "PurchaseList"
          /\ (form'[1].mode = "PurchaseList" /\ form[1].mode # "PurchaseList") =>
                \/ /\ form[1].mode = "Normal"
                   /\ form[1].current_tab = "Balances"
                   /\ app.portfolio # None
                   /\ form[1].selected_position < Len(app.portfolio[1])
                \/ /\ form[1].mode \in FormModes
                   /\ InputsCleared(form'[1])
          /\ FormEsc => form'[1].mode = "PurchaseList" /\ InputsCleared(form'[1])
          /\ ListEsc => form'[1].mode = "Normal" /\ InputsCleared(form'[1])
          /\ (form'[1].mode = "Normal" /\ form[1].mode # "Normal") =>
                /\ InputsCleared(form'[1])
                /\ form[1].mode = "PurchaseList" \/ SaveSucceeded
          /\ SaveSucceeded => form'[1].mode = "Normal" /\ InputsCleared(form'[1])]_vars

\* A purchase has been saved from a form: the mode is Normal again, the
\* inputs are empty and the refresh runs.
C34_Witness ==
    /\ form # None
    /\ form[1].saves = 1
    /\ form[1].mode = "Normal"
    /\ InputsCleared(form[1])
    /\ side["ui"].pc = "resolving"
    /\ data_file # Some(EditInitialString)

\* The sum of the quantities of the lots.
RECURSIVE QuantitySum(_)
QuantitySum(lots) == IF lots = <<>> THEN 0 ELSE Head(lots).quantity + QuantitySum(Tail(lots))

\* C35: after a successful save_new_purchase the written document is the
\* document of positions_str with, in the position at selected_position,
\* one more lot at the end of its purchases (date and quantity as entered,
\* a price only when the entered price is > 0) and the amount set to the
\* sum of the quantities of its lots; the other positions and the other
\* keys of that position, the undeclared one included, are as before.
C35_NewPurchasePatch ==
    [][(SaveSucceeded /\ form[1].mode = "AddPurchase") =>
          LET old == app_positions_str[1].positions
              new == data_file'[1].positions
              i == form[1].selected_position + 1
              quantity == parse_f64(form[1].purchase_quantity_input).val
              price == IF form[1].purchase_price_input = "" THEN 0
                       ELSE parse_f64(form[1].purchase_price_input).val
          IN /\ data_file' # None
             /\ data_file'[1].well_formed
             /\ Len(new) = Len(old)
             /\ \A j \in 1..Len(old) : j # i => new[j] = old[j]
             /\ DOMAIN new[i] = DOMAIN old[i]
             /\ \A key \in DOMAIN old[i] \ {"purchases", "amount"} : new[i][key] = old[i][key]
             /\ Len(new[i].purchases) = Len(old[i].purchases) + 1
             /\ SubSeq(new[i].purchases, 1, Len(old[i].purchases)) = old[i].purchases
             /\ new[i].purchases[Len(new[i].purchases)]
                    = [date |-> Some(form[1].purchase_date_input), quantity |-> quantity,
                       price |-> IF price > 0 THEN Some(price) ELSE None, fees |-> None]
             /\ new[i].amount = QuantitySum(new[i].purchases)]_vars

\* A lot without price has been added to the position with the undeclared
\* key, which the written document still holds.
C35_Witness ==
    /\ form # None
    /\ form[1].saves = 1
    /\ side["ui"].pc = "resolving"
    /\ data_file # None
    /\ Len(data_file[1].positions[1].purchases) = 3
    /\ data_file[1].positions[1].purchases[3].price = None
    /\ data_file[1].positions[1].note = "long term"
    /\ data_file[1].positions[1].amount = 5

\* C36: the Date input holds at most eight digits and is a prefix of the
\* pattern DDDD-DD-DD: its fifth and eighth characters are dashes and its
\* other characters are digits.
C36_DatePattern ==
    form # None =>
        LET date == form[1].purchase_date_input
        IN /\ digit_count(date) <= 8
           /\ Len(date) <= 10
           /\ \A k \in 1..Len(date) :
                 IF k \in {5, 8} THEN SubSeq(date, k, k) = "-"
                 ELSE is_ascii_digit(SubSeq(date, k, k))

\* C37: a step that leaves a purchase form, by Esc or by a successful
\* save, leaves no error message behind; and outside the forms there is
\* none.
C37_ErrorCleared ==
    [][(form # None /\ form' # None) =>
          /\ (form[1].mode \in FormModes /\ form'[1].mode \notin FormModes) =>
                form'[1].error_message = None
          /\ form'[1].mode \notin FormModes => form'[1].error_message = None]_vars

----------------------------------------------------------------------------
(* Claims on the alignment of the weekly series and on cash                *)

\* The weekly prices that belong to a ticker: the closes sampled from its
\* own response, the flat list tui.rs:396-397 takes when its fetch gave no
\* response, and no price when the quotes of its response cannot be read.
OwnWeekly(ticker_amount, fetch, weeks) ==
    IF fetch.resp = None THEN [w \in 1..weeks |-> ticker_amount.amount]
    ELSE IF fetch.resp[1].quotes_ok THEN Sampled(fetch.resp[1].quotes, weeks)
    ELSE [w \in 1..weeks |-> 0]

RECURSIVE OwnTotal(_, _, _, _, _)
OwnTotal(ticker_amounts, fetches, weeks, w, k) ==
    IF k = 0 THEN 0
    ELSE OwnTotal(ticker_amounts, fetches, weeks, w, k - 1)
         + OwnWeekly(ticker_amounts[k], fetches[k], weeks)[w] * ticker_amounts[k].amount

\* C38: in a series the historic task has computed, the total of every
\* week before the last is the cash plus, for each ticker, that ticker's
\* own weekly price times that ticker's amount; and no computation with
\* fetches has ended in a panic of the sampling.
C38_OwnPricePerTicker ==
    /\ ~(weekly["historic"].pc = "panicked" /\ weekly["historic"].fetches # <<>>)
    /\ (weekly["historic"].pc = "returned" /\ weekly["historic"].fetches # <<>>) =>
          LET ps == side["historic"].portfolio
              ticker_amounts == positions_with_ticker(ps)
              weeks == weekly["historic"].weeks
          IN \A w \in 1..(weeks - 1) :
                weekly["historic"].series[w].y
                    = cash_sum(ps, Len(ps))
                      + OwnTotal(ticker_amounts, weekly["historic"].fetches, weeks, w,
                                 Len(ticker_amounts))

\* The balances of the positions without a ticker, position.rs:64-76.
RECURSIVE CashBalance(_, _)
CashBalance(ps, k) ==
    IF k = 0 THEN 0
    ELSE CashBalance(ps, k - 1) + (IF HasTicker(ps[k]) THEN 0 ELSE get_balance(ps[k]))

\* C39: the sum of a finished historic aggregation of the total value is
\* the contributions of the ticker-backed positions plus, for every
\* position without a ticker, that position's balance, whether or not the
\* position lists purchase lots.
C39_CashIsBalance ==
    (histPc = "done" /\ histVariant = "total") =>
        LET entries == positions_with_ticker(histPositions)
        IN histSum = Gathered(entries, histResults, Len(entries)).sum
                     + CashBalance(histPositions, Len(histPositions))

----------------------------------------------------------------------------
(* Claims on the terminal of run_tui                                       *)

\* C40: when run_tui has returned after it enabled raw mode and entered
\* the alternate screen, raw mode is disabled and the alternate screen has
\* been left.
C40_TerminalRestored ==
    (AtTui("returned") /\ subject[1].entered) =>
        (~subject[1].raw_mode /\ ~subject[1].alternate_screen)

====
